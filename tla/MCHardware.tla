----------------------------- MODULE MCHardware -----------------------------
(***************************************************************************)
(* What programs do with the hardware of each model, a purpose at a time:  *)
(* the ports and values of it meet in all orders. The addresses are the    *)
(* ends of the quarters of memory and of what ports 27 and 28 lay over.    *)
(***************************************************************************)
EXTENDS Hardware

Corners == {0, \h38, \h3FFF, \h4000, \h7FFF, \h8000, \h803F, \h8040, \hBFFF, \hC000,
            \hFFBF, \hFFC0, \hFFFF}

Does(hw, out, in, read, events) ==
  [hw |-> hw, out |-> out, in |-> in, read |-> read, events |-> events]

Outputs(hw, out, events) == Does(hw, out, {}, {}, events)

BankPorts ==
  [x1 |-> {5, 6, 2, \h10} \X {0, 1, \h40, \hC8},
   x2 |-> ({2} \X {0, \h41, \h88, \hFF}) \cup {<<4, 0>>, <<4, \h11>>},
   x3 |-> ({2} \X {0, \h41, \h88, \hFF}) \cup ({0, 4} \X {0, \h11}),
   x5 |-> {5, 6} \X {0, 5, \h41, \hFF}, x6 |-> {5, 6} \X {0, 5, \h41, \hFF},
   x7 |-> ({4} \X {0, 7}) \cup ({6, \h0F} \X {0, \h1E, \h41, \hFF}),
   xp |-> ({4} \X {0, 7}) \cup ({6, \h0F} \X {0, \h1E, \h41, \hFF})]

LaterBankPorts ==
  ({4} \X {0, 1}) \cup ({5} \X {0, \hFF}) \cup ({6, 7} \X {0, \h7E, \h81})
    \cup ({\h27, \h28} \X {0, 1, \hFF})
ExtraBankPorts == {\h0E, \h0F} \X {0, 1}

Banking ==
  {Outputs(hw, BankPorts[hw], {"reset"}) : hw \in DOMAIN BankPorts}
    \cup {Outputs(hw, LaterBankPorts, {"reset"}) : hw \in SilverModels \ {"xc"}}
    \cup {Outputs("xc", LaterBankPorts \cup ExtraBankPorts, {"reset"})}

\* Masks of the interrupts, and acknowledging them
Masking ==
  {Does(hw, ({3} \X {0, 1, 6, \h0B, \h1F}) \cup ({2, 4} \X {0, 5, \h16}), {2, 3, 4}, {},
        {"on", "int", "reset"}) : hw \in Models}

Transfers ==
  {Does("xp", ({3} \X {0, \h10}) \cup ({0} \X {0, 4}), {4, 5}, {}, {"link", "reset"})}
    \cup {Does(hw, ({3, 2} \X {0, \h10}) \cup ({8} \X {0, 7, \h80, \h83})
                     \cup {<<9, 1>>, <<\h0A, 1>>, <<\h0B, 1>>, <<\h0C, 1>>, <<\h0D, 1>>},
               {4, 9, \h0A}, {}, {"link", "reset"}) : hw \in {"x4", "xn"}}

\* After a reset the second slot shows the certificate and the third one a page
\* of the system.
Sequence == {<<\h8000, byte>> : byte \in {0, \hED, \h56, \hF3, \hD3, \h14}}
Unlocking ==
  {Does(hw, ({\h14} \X {0, 1}) \cup ({\h16} \X {0, \hFF}) \cup ({5} \X {0, 1, 2, 7}),
        {2}, Sequence \cup {<<0, 0>>, <<\h4000, 0>>, <<\h38, \hFF>>}, {}) : hw \in {"x7", "xp"}}
    \cup {Does(hw, ({\h14} \X {0, 1}) \cup ({\h21, \h22, \h23, \h24} \X {\h32})
                     \cup ({\h25, \h26} \X {\h20}) \cup ({6} \X {\h80}),
               {2, \h21}, Sequence \cup {<<0, 0>>, <<\h4000, 0>>, <<\h38, \hFF>>}, {}) :
            hw \in {"x4", "xc"}}

Delaying ==
  {Does(hw, ({\h20} \X (0..3)) \cup ({\h29, \h2A, \h2B, \h2C} \X {\h14, \hFF})
              \cup ({\h2D, \h2F} \X {1}) \cup ({\h2E} \X {\h44, \h77}) \cup {<<\h10, 0>>},
        {\h11, \h20, \h2E}, {}, {"reset"}) : hw \in {"x4", "xs"}}

\* A clock whose bytes are bits
Timing == {Does(hw, ({\h40} \X (0..3)) \cup ({\h41, \h42, \h43} \X {0, 1}), {\h40, \h45}, {},
                {"second", "reset"}) : hw \in {"x4", "xs"}}

Lighting == {Does("xc", ({\h3A} \X {0, \h20}) \cup {<<\h39, 0>>}, {\h24, \h39, \h3A}, {},
                  {"reset"})}

Purposes ==
  Banking \cup Masking \cup Transfers \cup Unlocking \cup Delaying \cup Timing \cup Lighting
=============================================================================
