--------------------------- MODULE OfpInstructions ---------------------------
(***************************************************************************)
(* The OpenFlow 1.1+ instruction part of lib/ofp-actions.c as pure       *)
(* operators: the instruction table, decode_openflow11_instruction, the   *)
(* materialisation of the per-kind slots into ofpacts that follows the    *)
(* INSTRUCTION_FOR_EACH walk, and ofpacts_put_openflow11_instructions.    *)
(*                                                                         *)
(* A wire instruction is [type, len, acts, arg]: acts is the inner wire   *)
(* action list of an apply/write-actions instruction (<<>> otherwise) and *)
(* arg the one body field of the others (table id, metadata, meter id).  *)
(***************************************************************************)
EXTENDS OfpCodec

OFP11_INSTRUCTION_ALIGN == 8     \* also sizeof(struct ofp11_instruction)

\* The instruction kinds, named after their OVSINST_ enumerator; the
\* numbers are enum ovs_instruction_type, METER only in a Centec build.
InstKinds ==
    {"APPLY_ACTIONS", "CLEAR_ACTIONS", "WRITE_ACTIONS", "WRITE_METADATA", "GOTO_TABLE"}
    \cup (IF Centec THEN {"METER"} ELSE {})

\* OVS_INSTRUCTIONS: body struct size and extensibility of each kind.
InstTable ==
    ("APPLY_ACTIONS" :> Entry(8, TRUE)) @@ ("WRITE_ACTIONS" :> Entry(8, TRUE))
    @@ ("CLEAR_ACTIONS" :> Entry(8, FALSE)) @@ ("WRITE_METADATA" :> Entry(24, FALSE))
    @@ ("GOTO_TABLE" :> Entry(8, FALSE)) @@ ("METER" :> Entry(8, FALSE))

InstWireTypes == DOMAIN InstTable \cup {"EXPERIMENTER", "UNKNOWN"}

Inst(t, l, as, x) == [type |-> t, len |-> l, acts |-> as, arg |-> x]

\* Variant without the bound on what is left, for the mutation runs.
InstructionIsValidUnbounded(i, n) ==
    /\ i.len % OFP11_INSTRUCTION_ALIGN = 0
    /\ i.len >= OFP11_INSTRUCTION_ALIGN

\* instruction_is_valid
InstructionIsValid(i, n) ==
    /\ i.len % OFP11_INSTRUCTION_ALIGN = 0
    /\ i.len >= OFP11_INSTRUCTION_ALIGN
    /\ i.len \div OFP11_INSTRUCTION_ALIGN <= n

\* decode_openflow11_instruction
DecodeOpenflow11Instruction(i) ==
    IF i.type = "EXPERIMENTER" THEN Bad("OFPBIC_BAD_EXPERIMENTER")
    ELSE IF i.type \in InstKinds THEN
        IF IF InstTable[i.type].ext THEN i.len >= InstTable[i.type].size
           ELSE i.len = InstTable[i.type].size
        THEN Code(i.type) ELSE Bad("OFPBIC_BAD_LEN")
    ELSE Bad("OFPBIC_UNKNOWN_INST")

\* get_actions_from_instruction + ofpacts_from_openflow11 on the inner list.
InnerActions(i) ==
    FromOpenflow("OF11", i.acts, (i.len - OFP11_INSTRUCTION_ALIGN) \div OFP11_INSTRUCTION_ALIGN)

(***************************************************************************)
(* The body of ofpacts_pull_openflow11_instructions after a successful     *)
(* walk: slot is the function from each decoded kind to its instruction.  *)
(* Ofpacts are put in the fixed order meter, apply, clear, write (Centec),*)
(* write-metadata, goto; the first error wins and empties the output;     *)
(* otherwise ofpacts_verify decides.                                       *)
(***************************************************************************)
Has(slot, k) == k \in DOMAIN slot

\* One materialisation step: ofpacts put so far (r) and the next stage.
\* A failing stage jumps to exit with what was put before it still in the
\* buffer.
Then(r, stage) == IF r.err # None THEN r
                  ELSE LET s == stage IN [err |-> s.err, acts |-> r.acts \o s.acts]

MeterStage(slot) ==
    IF Centec /\ Has(slot, "METER") THEN Ok(<<Ofpact("METER", "INVALID", slot["METER"].arg)>>)
    ELSE Ok(<<>>)

ApplyStage(slot) ==
    IF Has(slot, "APPLY_ACTIONS") THEN InnerActions(slot["APPLY_ACTIONS"]) ELSE Ok(<<>>)

ClearStage(slot) ==
    IF Has(slot, "CLEAR_ACTIONS") THEN Ok(<<Ofpact("CLEAR_ACTIONS", "INVALID", "-")>>)
    ELSE Ok(<<>>)

\* Centec: write-actions are decoded into the same list, after clear; with
\* apply-actions present the pair is refused.
WriteStage(slot) ==
    IF Centec /\ Has(slot, "WRITE_ACTIONS") THEN
        IF Has(slot, "APPLY_ACTIONS") THEN Fail("OFPBIC_UNSUP_INST")
        ELSE InnerActions(slot["WRITE_ACTIONS"])
    ELSE Ok(<<>>)

WriteMetadataStage(slot) ==
    IF ~Has(slot, "WRITE_METADATA") THEN Ok(<<>>)
    ELSE IF Centec THEN Fail("OFPBIC_UNSUP_INST")
    ELSE Ok(<<Ofpact("WRITE_METADATA", "INVALID", slot["WRITE_METADATA"].arg)>>)

GotoTableStage(slot) ==
    IF ~Has(slot, "GOTO_TABLE") THEN Ok(<<>>)
    ELSE IF Centec THEN Fail("OFPBIC_UNSUP_INST")
    ELSE Ok(<<Ofpact("GOTO_TABLE", "INVALID", slot["GOTO_TABLE"].arg)>>)

\* Without _OFP_CENTEC_ a write-actions instruction is refused last.
WriteActionsRefused(slot) ==
    IF ~Centec /\ Has(slot, "WRITE_ACTIONS") THEN Fail("OFPBIC_UNSUP_INST") ELSE Ok(<<>>)

\* Variant that puts clear-actions before the apply-actions list, for the
\* mutation runs.
MaterialiseClearFirst(slot) ==
    LET r == Then(Then(Then(Then(Then(Then(Then(Ok(<<>>),
                 MeterStage(slot)), ClearStage(slot)), ApplyStage(slot)),
                 WriteStage(slot)), WriteMetadataStage(slot)), GotoTableStage(slot)),
                 WriteActionsRefused(slot))
    IN  IF r.err # None THEN Fail(r.err)
        ELSE IF OfpactsVerify(r.acts) # None THEN Fail(OfpactsVerify(r.acts))
        ELSE r

\* The stages in order, then ofpacts_verify; exit: clears the ofpacts on
\* any error.
Materialise(slot) ==
    LET r == Then(Then(Then(Then(Then(Then(Then(Ok(<<>>),
                 MeterStage(slot)), ApplyStage(slot)), ClearStage(slot)),
                 WriteStage(slot)), WriteMetadataStage(slot)), GotoTableStage(slot)),
                 WriteActionsRefused(slot))
    IN  IF r.err # None THEN Fail(r.err)
        ELSE IF OfpactsVerify(r.acts) # None THEN Fail(OfpactsVerify(r.acts))
        ELSE r

(***************************************************************************)
(* The whole ofpacts_pull_openflow11_instructions call on a request       *)
(* [insts, instsLen, msgLen], as a function of its input.                 *)
(***************************************************************************)
RECURSIVE DecodeOpenflow11Instructions(_, _, _)
DecodeOpenflow11Instructions(insts, left, slot) ==
    IF left = 0 THEN [err |-> None, slot |-> slot]
    ELSE IF ~InstructionIsValid(Head(insts), left)
         THEN [err |-> "OFPBIC_BAD_LEN", slot |-> slot]
    ELSE LET d == DecodeOpenflow11Instruction(Head(insts)) IN
         IF d.err # None THEN [err |-> d.err, slot |-> slot]
         ELSE IF Has(slot, d.code) THEN [err |-> "OFPBAC_UNSUPPORTED_ORDER", slot |-> slot]
         ELSE DecodeOpenflow11Instructions(Tail(insts),
                  left - Head(insts).len \div OFP11_INSTRUCTION_ALIGN,
                  slot @@ (d.code :> Head(insts)))

PullInstructions(req) ==
    IF req.instsLen % OFP11_INSTRUCTION_ALIGN # 0 \/ req.instsLen > req.msgLen
    THEN Fail("OFPBIC_BAD_LEN")
    ELSE LET w == DecodeOpenflow11Instructions(req.insts,
                      req.instsLen \div OFP11_INSTRUCTION_ALIGN, <<>>)
         IN  IF w.err # None THEN Fail(w.err) ELSE Materialise(w.slot)

(***************************************************************************)
(* ofpacts_put_openflow11_instructions.  ofpact_is_instruction (ofp-      *)
(* actions.h) holds for clear, write-metadata, goto and meter.  A run of  *)
(* other ofpacts becomes one apply-actions instruction, deleted by        *)
(* ofpacts_update_instruction_actions when its body is empty.             *)
(***************************************************************************)
IsInstruction(o) == o.type \in {"CLEAR_ACTIONS", "WRITE_METADATA", "GOTO_TABLE", "METER"}

\* Variant of the apply-actions run that misses the break at an
\* instruction ofpact, for the mutation runs.
RunLenNoBreak(acts) == Len(acts)

\* Length of the longest prefix of acts without an instruction ofpact.
RECURSIVE RunLen(_)
RunLen(acts) == IF acts = <<>> \/ IsInstruction(Head(acts)) THEN 0 ELSE 1 + RunLen(Tail(acts))

ApplyInstruction(body) ==
    IF body = <<>> THEN <<>>
    ELSE <<Inst("APPLY_ACTIONS", OFP11_INSTRUCTION_ALIGN + WireBytes(body), body, "-")>>

RECURSIVE PutOpenflow11Instructions(_)
PutOpenflow11Instructions(acts) ==
    IF acts = <<>> THEN <<>>
    ELSE LET o == Head(acts) IN
         CASE o.type = "CLEAR_ACTIONS" ->
                <<Inst("CLEAR_ACTIONS", 8, <<>>, "-")>> \o PutOpenflow11Instructions(Tail(acts))
           [] o.type = "METER" /\ Centec ->
                <<Inst("METER", 8, <<>>, o.arg)>> \o PutOpenflow11Instructions(Tail(acts))
           [] o.type = "GOTO_TABLE" ->
                <<Inst("GOTO_TABLE", 8, <<>>, o.arg)>> \o PutOpenflow11Instructions(Tail(acts))
           [] o.type = "WRITE_METADATA" ->
                <<Inst("WRITE_METADATA", 24, <<>>, o.arg)>> \o PutOpenflow11Instructions(Tail(acts))
           [] ~IsInstruction(o) ->
                LET n == RunLen(acts) IN
                ApplyInstruction(PutOpenflow("OF11", SubSeq(acts, 1, n)))
                    \o PutOpenflow11Instructions(SubSeq(acts, n + 1, Len(acts)))
           [] OTHER -> PutOpenflow11Instructions(Tail(acts))

=============================================================================
