---------------------------- MODULE InstructionPull ----------------------------
(***************************************************************************)
(* ofpacts_pull_openflow11_instructions, one step per iteration of the    *)
(* INSTRUCTION_FOR_EACH loop of decode_openflow11_instructions; the       *)
(* materialisation of the slots into ofpacts and ofpacts_verify follow as *)
(* the last step.                                                          *)
(*                                                                         *)
(* The request [insts, instsLen, msgLen] is fixed by Init.  slot is the   *)
(* array insts[N_OVS_INSTRUCTIONS] of the code, as a function from the    *)
(* kinds seen so far to their instruction.                                *)
(***************************************************************************)
EXTENDS OfpInstructions

CONSTANT Inputs     \* the requests [insts, instsLen, msgLen] a caller may make

VARIABLES input, left, off, pos, touched, slot, ofpacts, error, pc

vars == <<input, left, off, pos, touched, slot, ofpacts, error, pc>>

Cur == input.insts[pos]

Init ==
    /\ input \in Inputs
    /\ left = 0
    /\ off = 0
    /\ pos = 1
    /\ touched = 0
    /\ slot = <<>>
    /\ ofpacts = <<>>
    /\ error = None
    /\ pc = "pull"

\* instructions_len misaligned, or more than ofpbuf_try_pull finds.
PullRejected ==
    /\ pc = "pull"
    /\ input.instsLen % OFP11_INSTRUCTION_ALIGN # 0 \/ input.instsLen > input.msgLen
    /\ error' = "OFPBIC_BAD_LEN"
    /\ pc' = "done"
    /\ UNCHANGED <<input, left, off, pos, touched, slot, ofpacts>>

PullAccepted ==
    /\ pc = "pull"
    /\ input.instsLen % OFP11_INSTRUCTION_ALIGN = 0
    /\ input.instsLen <= input.msgLen
    /\ left' = input.instsLen \div OFP11_INSTRUCTION_ALIGN
    /\ pc' = "walk"
    /\ UNCHANGED <<input, off, pos, touched, slot, ofpacts, error>>

\* One loop iteration: decode_openflow11_instruction, then the duplicate
\* check on out[type].
DecodeInstruction ==
    LET d == DecodeOpenflow11Instruction(Cur) IN
    /\ pc = "walk"
    /\ left > 0
    /\ InstructionIsValid(Cur, left)
    /\ touched' = off + Cur.len
    /\ \/ /\ d.err = None
          /\ ~Has(slot, d.code)
          /\ slot' = slot @@ (d.code :> Cur)
          /\ left' = left - Cur.len \div OFP11_INSTRUCTION_ALIGN
          /\ off' = off + Cur.len
          /\ pos' = pos + 1
          /\ UNCHANGED <<error, pc>>
       \/ /\ d.err # None \/ Has(slot, d.code)
          /\ error' = IF d.err # None THEN d.err ELSE "OFPBAC_UNSUPPORTED_ORDER"
          /\ pc' = "done"
          /\ UNCHANGED <<slot, left, off, pos>>
    /\ UNCHANGED <<input, ofpacts>>

\* The loop condition fails: leftover units are OFPBIC_BAD_LEN; otherwise
\* the slots are materialised and verified.
EndWalk ==
    /\ pc = "walk"
    /\ ~(left > 0 /\ InstructionIsValid(Cur, left))
    /\ LET r == IF left # 0 THEN Fail("OFPBIC_BAD_LEN") ELSE Materialise(slot) IN
       /\ error' = r.err
       /\ ofpacts' = r.acts
    /\ pc' = "done"
    /\ UNCHANGED <<input, left, off, pos, touched, slot>>

Next ==
    \/ PullRejected
    \/ PullAccepted
    \/ DecodeInstruction
    \/ EndWalk

Spec == Init /\ [][Next]_vars

-----------------------------------------------------------------------------
(***************************************************************************)
(* Properties.                                                             *)
(***************************************************************************)
TypeOK ==
    /\ pc \in {"pull", "walk", "done"}
    /\ left \in Nat /\ off \in Nat /\ touched \in Nat
    /\ pos \in 1..(Len(input.insts) + 1)
    /\ DOMAIN slot \subseteq InstKinds
    /\ \A i \in DOMAIN ofpacts : ofpacts[i].type \in OfpactTypes
    /\ error \in STRING

(* The walk never reads an instruction that reaches past the              *)
(* instructions_len bytes it pulled (instruction_is_valid's bound).      *)
WalkInBounds == touched <= input.instsLen

(* Ofpact round trip: the ofpacts of a successful pull, put back as      *)
(* instructions by ofpacts_put_openflow11_instructions and pulled again, *)
(* come back unchanged.                                                   *)
OfpactRoundTrip ==
    (pc = "done" /\ error = None) =>
        LET w == PutOpenflow11Instructions(ofpacts) IN
        LET back == PullInstructions([insts |-> w, instsLen |-> WireBytes(w),
                                      msgLen |-> WireBytes(w)])
        IN  back.err = None /\ OfpactsEqual(back.acts, ofpacts)

\* The order in which ofpacts_pull_openflow11_instructions materialises
\* the kinds (spec 4.E), write-actions in its Centec place.
InstOrder == <<"METER", "APPLY_ACTIONS", "CLEAR_ACTIONS", "WRITE_ACTIONS",
               "WRITE_METADATA", "GOTO_TABLE">>

ActionList(i) == i.type \in {"APPLY_ACTIONS", "WRITE_ACTIONS"}

\* The canonical form of one instruction: canonical inner records, an
\* empty action list suppressed.
CanonicalInstruction(i) ==
    IF ActionList(i)
    THEN LET body == [j \in DOMAIN i.acts |-> CanonicalAction("OF11", i.acts[j])] IN
         IF body = <<>> THEN <<>>
         ELSE <<Inst(i.type, OFP11_INSTRUCTION_ALIGN + WireBytes(body), body, "-")>>
    ELSE <<Inst(i.type, InstTable[i.type].size, <<>>, i.arg)>>

(* Wire round trip: a successful pull, put back as instructions, gives   *)
(* the instructions it decoded, each in canonical form, in the fixed     *)
(* order of spec 4.E, every kind kept as the kind it was.                 *)
WireRoundTrip ==
    (pc = "done" /\ error = None) =>
        PutOpenflow11Instructions(ofpacts)
            = FlattenSeq([j \in DOMAIN InstOrder |->
                 IF Has(slot, InstOrder[j]) THEN CanonicalInstruction(slot[InstOrder[j]])
                 ELSE <<>>])

\* The kinds the build claims: spec 4.E; meter and write-actions are the
\* Centec additions (spec 9).
SpecKinds ==
    {"APPLY_ACTIONS", "CLEAR_ACTIONS", "WRITE_METADATA", "GOTO_TABLE"}
    \cup (IF Centec THEN {"METER", "WRITE_ACTIONS"} ELSE {})

\* A well-formed instruction: a claimed kind at its canonical length whose
\* inner actions decode to plain (apply-category) ofpacts.
WellFormedInstruction(i) ==
    /\ i.type \in SpecKinds
    /\ i.len = IF ActionList(i) THEN OFP11_INSTRUCTION_ALIGN + WireBytes(i.acts)
               ELSE InstTable[i.type].size
    /\ ActionList(i) =>
          LET r == FromOpenflow("OF11", i.acts, WireBytes(i.acts) \div OFP_ACTION_ALIGN) IN
          r.err = None /\ \A o \in Range(r.acts) : InstructionOf(o) = InstApply

\* A well-formed request: well-formed instructions of distinct kinds, not
\* both apply- and write-actions (refused on purpose, ofp-actions.c:1103-1109),
\* exactly covering instructions_len, all in the message.
WellFormed(req) ==
    /\ \A i \in DOMAIN req.insts : WellFormedInstruction(req.insts[i])
    /\ \A i, j \in DOMAIN req.insts : i # j => req.insts[i].type # req.insts[j].type
    /\ ~\E i, j \in DOMAIN req.insts :
          req.insts[i].type = "APPLY_ACTIONS" /\ req.insts[j].type = "WRITE_ACTIONS"
    /\ req.instsLen = WireBytes(req.insts)
    /\ req.instsLen <= req.msgLen

(* Completeness: every well-formed list of the kinds the build supports  *)
(* is accepted (spec 4.E materialises each kind; spec 4.H orders them).  *)
AcceptsWellFormed == (pc = "done" /\ WellFormed(input)) => error = None

=============================================================================
