--------------------------- MODULE MCWorkerFlags ----------------------------
(***************************************************************************)
(* Masks with no flag, one, some and all of them, with bits that are no    *)
(* flags, and negative.  The operations treat the flags alike.             *)
(***************************************************************************)
EXTENDS WorkerFlags

SomeMasks == {{}, {"NAN"}, {"INEXACT", "beyond"}, {"UNDERFLOW", "negative"},
              {"NAN", "ERANGE", "DIVBY0"}, AllFlags}
=============================================================================
