---------------------------- MODULE MCVerifyOrder ----------------------------
(***************************************************************************)
(* Every list of up to MaxLen ofpacts of the five instruction categories *)
(* the verifier tells apart (meter is a plain one to it).                 *)
(***************************************************************************)
EXTENDS VerifyOrder

CONSTANT MaxLen

Kinds == {Ofpact(t, "INVALID", "-") :
            t \in {"OUTPUT", "METER", "CLEAR_ACTIONS", "WRITE_METADATA", "GOTO_TABLE"}}

AllLists == SeqOf(Kinds, MaxLen)

=============================================================================
