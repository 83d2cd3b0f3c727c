-------------------------------- MODULE MCHost --------------------------------
(***************************************************************************)
(* Small instances of parts of the user interfaces which share no state.   *)
(* A behaviour is one of one part; the others stay as they begin, so that  *)
(* TLC visits the sum of their states and not the product.                 *)
(***************************************************************************)
EXTENDS KeyQueue, QtLink

CONSTANTS k1, k2, h1, h2, h3

Bindings == [h \in Host |-> CASE h = h1 -> <<k1>>
                              [] h = h2 -> <<k2, k1>>
                              [] h = h3 -> <<k2>>]

VARIABLE part  \* the part that is at work

hostVars == <<keyVars, qtVars, part>>

Others(p) ==
  /\ p # "keys" => UNCHANGED keyVars
  /\ p # "qt" => UNCHANGED qtVars

HostInit == KeyInit /\ QtInit /\ part \in {"keys", "qt"}

HostNext ==
  /\ UNCHANGED part /\ Others(part)
  /\ \/ part = "keys" /\ KeyNext
     \/ part = "qt" /\ QtNext

\* The fairness of each part while it is at work: elsewhere its actions are
\* disabled
HostFairSpec ==
  /\ HostInit /\ [][HostNext]_hostVars
  /\ WF_keyVars(part = "keys" /\ tmr_key_queue)
  /\ WF_qtVars(part = "qt" /\ PumpStep)
  /\ SF_qtVars(part = "qt" /\ calc_takes)

\* The variables of all parts have their types
HostTypeOK == KeyTypeOK /\ QtTypeOK
=============================================================================
