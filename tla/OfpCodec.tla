------------------------------ MODULE OfpCodec ------------------------------
(***************************************************************************)
(* The per-record part of the action codec of lib/ofp-actions.c: the      *)
(* opcode tables, the length/type classifiers, the wire -> ofpact        *)
(* translators, the ofpact -> wire encoders, the instruction-order        *)
(* verifier and the list walks built from them.  Everything here is a    *)
(* pure operator; the modules ActionPull and InstructionPull turn the     *)
(* calls into steps.                                                      *)
(*                                                                         *)
(* Data abstraction.  A wire action is a record                            *)
(*   [type |-> code, len |-> header.len in bytes, arg |-> body, zero |-> b]*)
(* where arg is the one body field the code inspects or copies (a port    *)
(* class, an ethertype class, a table id, the controller-id list) and     *)
(* zero tells whether the reserved bytes the code looks at are all zero.  *)
(* Vendor records are named by their NX subtype; "VENDOR_OTHER" is a      *)
(* vendor record whose vendor id is not NX_VENDOR_ID.  An ofpact is       *)
(* [type |-> OFPACT_x, compat |-> originating code, arg |-> body].        *)
(***************************************************************************)
EXTENDS Integers, Sequences, SequencesExt, TLC

CONSTANT Centec    \* TRUE iff the build defines _OFP_CENTEC_

ASSUME Centec \in BOOLEAN

None == "none"          \* the error code 0

RoundUp(n, a) == ((n + a - 1) \div a) * a

OFP_ACTION_ALIGN == 8       \* sizeof(union ofp_action)
NxHeaderLen      == 16      \* sizeof(struct nx_action_header)
NoteHeaderLen    == 10      \* offsetof(struct nx_action_note, note)
CntIdsHeaderLen  == 16      \* sizeof(struct nx_action_cnt_ids)

(***************************************************************************)
(* Opcode tables (ofp-util.def): body size and extensibility of the       *)
(* modelled OpenFlow 1.0, 1.1 and Nicira actions.                          *)
(***************************************************************************)
Entry(size, ext) == [size |-> size, ext |-> ext]

OF10Table ==
    ("OFPAT10_OUTPUT" :> Entry(8, FALSE)) @@ ("OFPAT10_SET_VLAN_VID" :> Entry(8, FALSE))
    @@ ("OFPAT10_STRIP_VLAN" :> Entry(8, FALSE)) @@ ("OFPAT10_ENQUEUE" :> Entry(16, FALSE))

OF11Table ==
    ("OFPAT11_OUTPUT" :> Entry(16, FALSE)) @@ ("OFPAT11_SET_VLAN_VID" :> Entry(8, FALSE))
    @@ ("OFPAT11_PUSH_VLAN" :> Entry(8, FALSE)) @@ ("OFPAT11_POP_VLAN" :> Entry(8, FALSE))
    @@ ("OFPAT11_DEC_NW_TTL" :> Entry(8, FALSE)) @@ ("OFPAT11_PUSH_MPLS" :> Entry(8, FALSE))
    @@ ("OFPAT11_POP_MPLS" :> Entry(8, FALSE))

NXTable ==
    ("NXAST_RESUBMIT" :> Entry(16, FALSE)) @@ ("NXAST_RESUBMIT_TABLE" :> Entry(16, FALSE))
    @@ ("NXAST_SET_TUNNEL" :> Entry(16, FALSE)) @@ ("NXAST_SET_TUNNEL64" :> Entry(24, FALSE))
    @@ ("NXAST_WRITE_METADATA" :> Entry(32, FALSE)) @@ ("NXAST_NOTE" :> Entry(16, TRUE))
    @@ ("NXAST_DEC_TTL" :> Entry(16, FALSE)) @@ ("NXAST_DEC_TTL_CNT_IDS" :> Entry(16, TRUE))
    @@ ("NXAST_EXIT" :> Entry(16, FALSE)) @@ ("NXAST_PUSH_MPLS" :> Entry(16, FALSE))
    @@ ("NXAST_POP_MPLS" :> Entry(16, FALSE))

\* Records carried in the OFPAT10_VENDOR / OFPAT11_EXPERIMENTER envelope.
VendorTypes == DOMAIN NXTable \cup {"NXAST_SNAT__OBSOLETE", "VENDOR_OTHER"}

WireTypes == DOMAIN OF10Table \cup DOMAIN OF11Table \cup VendorTypes \cup {"UNKNOWN"}

Ports == {"phys", "in_port", "controller", "bad"}   \* < OFPP_MAX, IN_PORT, CONTROLLER, other >= OFPP_MAX

OfpactTypes == {"OUTPUT", "ENQUEUE", "SET_VLAN_VID", "STRIP_VLAN", "PUSH_VLAN",
                "DEC_TTL", "PUSH_MPLS", "POP_MPLS", "RESUBMIT", "SET_TUNNEL",
                "WRITE_METADATA", "NOTE", "EXIT", "CLEAR_ACTIONS", "GOTO_TABLE", "METER"}

WireAction(t, l, x) == [type |-> t, len |-> l, arg |-> x, zero |-> TRUE]
Ofpact(t, c, x)     == [type |-> t, compat |-> c, arg |-> x]

Code(c) == [err |-> None, code |-> c]
Bad(e)  == [err |-> e, code |-> "INVALID"]
Ok(as)  == [err |-> None, acts |-> as]
Fail(e) == [err |-> e, acts |-> <<>>]

(***************************************************************************)
(* Length/type classification (decode_nxast_action, decode_openflow10_    *)
(* action, decode_openflow11_action).                                      *)
(***************************************************************************)
LengthRule(a, tbl) ==
    IF IF tbl[a.type].ext THEN a.len >= tbl[a.type].size ELSE a.len = tbl[a.type].size
    THEN Code(a.type) ELSE Bad("OFPBAC_BAD_LEN")

DecodeNxastAction(a) ==
    IF a.len < NxHeaderLen THEN Bad("OFPBAC_BAD_LEN")
    ELSE IF a.type = "VENDOR_OTHER" THEN Bad("OFPBAC_BAD_VENDOR")
    ELSE IF a.type \in DOMAIN NXTable THEN LengthRule(a, NXTable)
    ELSE Bad("OFPBAC_BAD_TYPE")

DecodeOpenflow10Action(a) ==
    IF a.type \in VendorTypes THEN DecodeNxastAction(a)
    ELSE IF a.type \in DOMAIN OF10Table
         THEN IF a.len = OF10Table[a.type].size THEN Code(a.type) ELSE Bad("OFPBAC_BAD_LEN")
    ELSE Bad("OFPBAC_BAD_TYPE")

DecodeOpenflow11Action(a) ==
    IF a.type \in VendorTypes THEN DecodeNxastAction(a)
    ELSE IF a.type \in DOMAIN OF11Table THEN LengthRule(a, OF11Table)
    ELSE Bad("OFPBAC_BAD_TYPE")

(***************************************************************************)
(* Wire -> ofpact translation of one classified record.  On an error the  *)
(* caller clears the whole output, so the ofpacts already put are not     *)
(* returned.                                                               *)
(***************************************************************************)
DecTtlFromOpenflow(compat) == Ok(<<Ofpact("DEC_TTL", compat, <<0>>)>>)

DecTtlCntIdsFromOpenflow(a) ==
    IF ~a.zero THEN Fail("NXBRC_MUST_BE_ZERO")
    ELSE IF a.len - CntIdsHeaderLen < 2 * Len(a.arg) THEN Fail("OFPBAC_BAD_LEN")
    ELSE Ok(<<Ofpact("DEC_TTL", "NXAST_DEC_TTL_CNT_IDS", a.arg)>>)

\* resubmit_from_openflow: the table is left at 0xff.
ResubmitFromOpenflow(a) == Ok(<<Ofpact("RESUBMIT", "NXAST_RESUBMIT", 255)>>)

\* resubmit_table_from_openflow: the three pad bytes must be zero.
ResubmitTableFromOpenflow(a) ==
    IF ~a.zero THEN Fail("OFPBAC_BAD_ARGUMENT")
    ELSE Ok(<<Ofpact("RESUBMIT", "NXAST_RESUBMIT_TABLE", a.arg)>>)

\* metadata_from_nxast: the reserved bytes must be zero; compat is left
\* unset.
MetadataFromNxast(a) ==
    IF ~a.zero THEN Fail("NXBRC_MUST_BE_ZERO")
    ELSE Ok(<<Ofpact("WRITE_METADATA", "INVALID", a.arg)>>)

\* note_from_openflow: the payload is everything after the note header,
\* padding included.
NoteFromOpenflow(a) == Ok(<<Ofpact("NOTE", "INVALID", a.len - NoteHeaderLen)>>)

OfpactFromNxast(a, code) ==
    CASE code = "NXAST_RESUBMIT" -> ResubmitFromOpenflow(a)
      [] code = "NXAST_RESUBMIT_TABLE" -> ResubmitTableFromOpenflow(a)
      [] code \in {"NXAST_SET_TUNNEL", "NXAST_SET_TUNNEL64"} ->
            Ok(<<Ofpact("SET_TUNNEL", code, a.arg)>>)
      [] code = "NXAST_WRITE_METADATA" -> MetadataFromNxast(a)
      [] code = "NXAST_NOTE" -> NoteFromOpenflow(a)
      [] code = "NXAST_EXIT" -> Ok(<<Ofpact("EXIT", "INVALID", "-")>>)
      [] code = "NXAST_DEC_TTL" -> DecTtlFromOpenflow(code)
      [] code = "NXAST_DEC_TTL_CNT_IDS" -> DecTtlCntIdsFromOpenflow(a)
      [] code = "NXAST_PUSH_MPLS" ->
            IF a.arg # "mpls" THEN Fail("OFPBAC_BAD_ARGUMENT")
            ELSE Ok(<<Ofpact("PUSH_MPLS", "INVALID", a.arg)>>)
      [] code = "NXAST_POP_MPLS" ->
            IF a.arg = "mpls" THEN Fail("OFPBAC_BAD_ARGUMENT")
            ELSE Ok(<<Ofpact("POP_MPLS", "INVALID", a.arg)>>)

\* ofputil_check_output_port(port, OFPP_MAX) for the modelled port classes.
OutputPortOk(p) == p \in {"phys", "in_port", "controller"}

\* output_from_openflow10 / output_from_openflow11: the OUTPUT is put
\* before the port is checked, and the caller clears the list on the error.
\* (ofputil_port_from_ofp11 maps every modelled port class.)
OutputFromOpenflow10(a) ==
    IF OutputPortOk(a.arg) THEN Ok(<<Ofpact("OUTPUT", "INVALID", a.arg)>>)
    ELSE Fail("OFPBAC_BAD_OUT_PORT")

OutputFromOpenflow11(a) == OutputFromOpenflow10(a)

\* enqueue_from_openflow10: a port below OFPP_MAX, IN_PORT or LOCAL.
EnqueueFromOpenflow10(a) ==
    IF a.arg \in {"phys", "in_port"} THEN Ok(<<Ofpact("ENQUEUE", "INVALID", a.arg)>>)
    ELSE Fail("OFPBAC_BAD_OUT_PORT")

OfpactFromOpenflow10(a) ==
    LET d == DecodeOpenflow10Action(a) IN
    IF d.err # None THEN Fail(d.err)
    ELSE CASE d.code = "OFPAT10_OUTPUT" -> OutputFromOpenflow10(a)
           [] d.code = "OFPAT10_SET_VLAN_VID" ->
                IF a.arg # "ok" THEN Fail("OFPBAC_BAD_ARGUMENT")
                ELSE Ok(<<Ofpact("SET_VLAN_VID", "INVALID", a.arg)>>)
           [] d.code = "OFPAT10_STRIP_VLAN" -> Ok(<<Ofpact("STRIP_VLAN", "INVALID", "-")>>)
           [] d.code = "OFPAT10_ENQUEUE" -> EnqueueFromOpenflow10(a)
           [] d.code \in DOMAIN NXTable -> OfpactFromNxast(a, d.code)

\* OFPAT11_PUSH_VLAN: without _OFP_CENTEC_ the code puts one PUSH_VLAN
\* (ethertype left 0 by ofpact_init) and then falls into the line that puts
\* a second one carrying the wire ethertype.
PushVlanFromOpenflow11(a) ==
    IF Centec THEN Ok(<<Ofpact("PUSH_VLAN", "INVALID", a.arg)>>)
    ELSE IF a.arg # "0x8100" THEN Fail("OFPBAC_BAD_ARGUMENT")
    ELSE Ok(<<Ofpact("PUSH_VLAN", "INVALID", "0"), Ofpact("PUSH_VLAN", "INVALID", a.arg)>>)

OfpactFromOpenflow11(a) ==
    LET d == DecodeOpenflow11Action(a) IN
    IF d.err # None THEN Fail(d.err)
    ELSE CASE d.code = "OFPAT11_OUTPUT" -> OutputFromOpenflow11(a)
           [] d.code = "OFPAT11_SET_VLAN_VID" ->
                IF a.arg # "ok" THEN Fail("OFPBAC_BAD_ARGUMENT")
                ELSE Ok(<<Ofpact("SET_VLAN_VID", "INVALID", a.arg)>>)
           [] d.code = "OFPAT11_PUSH_VLAN" -> PushVlanFromOpenflow11(a)
           [] d.code = "OFPAT11_POP_VLAN" -> Ok(<<Ofpact("STRIP_VLAN", "INVALID", "-")>>)
           [] d.code = "OFPAT11_DEC_NW_TTL" -> DecTtlFromOpenflow(d.code)
           [] d.code = "OFPAT11_PUSH_MPLS" ->
                IF ~Centec /\ a.arg # "mpls" THEN Fail("OFPBAC_BAD_ARGUMENT")
                ELSE Ok(<<Ofpact("PUSH_MPLS", "INVALID", a.arg)>>)
           [] d.code = "OFPAT11_POP_MPLS" ->
                IF ~Centec /\ a.arg = "mpls" THEN Fail("OFPBAC_BAD_ARGUMENT")
                ELSE Ok(<<Ofpact("POP_MPLS", "INVALID", a.arg)>>)
           [] d.code \in DOMAIN NXTable -> OfpactFromNxast(a, d.code)

OfpactFromOpenflow(version, a) ==
    IF version = "OF10" THEN OfpactFromOpenflow10(a) ELSE OfpactFromOpenflow11(a)

(***************************************************************************)
(* The ACTION_FOR_EACH walk of ofpacts_from_openflow over n_in 8-byte     *)
(* units: a record is used only if its length is aligned, at least one     *)
(* unit and no longer than what is left; units left over are BAD_LEN.     *)
(***************************************************************************)
\* Variant without the bound on what is left (a loop that trusts
\* header.len), for the mutation runs.
ActionIsValidUnbounded(a, n) ==
    /\ a.len % OFP_ACTION_ALIGN = 0
    /\ a.len >= OFP_ACTION_ALIGN

ActionIsValid(a, n) ==
    /\ a.len % OFP_ACTION_ALIGN = 0
    /\ a.len >= OFP_ACTION_ALIGN
    /\ a.len \div OFP_ACTION_ALIGN <= n

RECURSIVE FromOpenflow(_, _, _)
FromOpenflow(version, w, left) ==
    IF left = 0 THEN Ok(<<>>)
    ELSE IF ~ActionIsValid(Head(w), left) THEN Fail("OFPBAC_BAD_LEN")
    ELSE LET r == OfpactFromOpenflow(version, Head(w))
             rest == FromOpenflow(version, Tail(w), left - Head(w).len \div OFP_ACTION_ALIGN)
         IN  IF r.err # None THEN r
             ELSE IF rest.err # None THEN rest
             ELSE Ok(r.acts \o rest.acts)

(***************************************************************************)
(* ofpacts_verify: the instruction category of each ofpact (enum          *)
(* ovs_instruction_type: APPLY_ACTIONS < CLEAR_ACTIONS < WRITE_ACTIONS <   *)
(* WRITE_METADATA < GOTO_TABLE) may never fall back, and no category but  *)
(* APPLY_ACTIONS may repeat.                                               *)
(***************************************************************************)
InstApply == 0
InstClear == 1
InstWriteMetadata == 3
InstGotoTable == 4

InstructionOf(a) ==
    CASE a.type = "CLEAR_ACTIONS"  -> InstClear
      [] a.type = "WRITE_METADATA" -> InstWriteMetadata
      [] a.type = "GOTO_TABLE"     -> InstGotoTable
      [] OTHER                     -> InstApply

RECURSIVE VerifyFrom(_, _)
VerifyFrom(acts, inst) ==
    IF acts = <<>> THEN None
    ELSE LET next == InstructionOf(Head(acts)) IN
         IF inst # InstApply /\ next <= inst THEN "OFPBAC_UNSUPPORTED_ORDER"
         ELSE VerifyFrom(Tail(acts), next)

OfpactsVerify(acts) == VerifyFrom(acts, InstApply)

(***************************************************************************)
(* Ofpact -> wire.  NotReached stands for the NOT_REACHED() abort.        *)
(***************************************************************************)
NotReached == [type |-> "NOT_REACHED", len |-> 0, arg |-> "-", zero |-> TRUE]

\* Variant with ids_len not rounded up to OFP_ACTION_ALIGN, for the
\* mutation runs.
OfpactDecTtlToNxastUnpadded(o) ==
    IF o.compat = "NXAST_DEC_TTL" THEN <<WireAction("NXAST_DEC_TTL", 16, "-")>>
    ELSE <<WireAction("NXAST_DEC_TTL_CNT_IDS", CntIdsHeaderLen + 2 * Len(o.arg), o.arg)>>

OfpactDecTtlToNxast(o) ==
    IF o.compat = "NXAST_DEC_TTL" THEN <<WireAction("NXAST_DEC_TTL", 16, "-")>>
    ELSE <<WireAction("NXAST_DEC_TTL_CNT_IDS",
                      CntIdsHeaderLen + RoundUp(2 * Len(o.arg), OFP_ACTION_ALIGN), o.arg)>>

\* Variant whose resubmit encoder ignores compat, for the mutation runs.
OfpactResubmitToNxastNoCompat(o) ==
    IF o.arg = 255 THEN <<WireAction("NXAST_RESUBMIT", 16, "-")>>
    ELSE <<WireAction("NXAST_RESUBMIT_TABLE", 16, o.arg)>>

\* ofpact_resubmit_to_nxast: the short form only for table 0xff when the
\* ofpact did not come from a resubmit_table.
OfpactResubmitToNxast(o) ==
    IF o.arg = 255 /\ o.compat # "NXAST_RESUBMIT_TABLE"
    THEN <<WireAction("NXAST_RESUBMIT", 16, "-")>>
    ELSE <<WireAction("NXAST_RESUBMIT_TABLE", 16, o.arg)>>

\* ofpact_set_tunnel_to_nxast: the 32-bit form for a small tun_id unless
\* the ofpact came from a set_tunnel64.
OfpactSetTunnelToNxast(o) ==
    IF o.arg = "small" /\ o.compat # "NXAST_SET_TUNNEL64"
    THEN <<WireAction("NXAST_SET_TUNNEL", 16, o.arg)>>
    ELSE <<WireAction("NXAST_SET_TUNNEL64", 24, o.arg)>>

OfpactWriteMetadataToNxast(o) == <<WireAction("NXAST_WRITE_METADATA", 32, o.arg)>>

\* ofpact_note_to_nxast: header and payload, zero-padded to a multiple of
\* OFP_ACTION_ALIGN, with len set to the padded size.
OfpactNoteToNxast(o) ==
    <<WireAction("NXAST_NOTE", RoundUp(NoteHeaderLen + o.arg, OFP_ACTION_ALIGN), "-")>>

\* ofpact_to_nxast for the modelled kinds; the kinds with a 1.0 or 1.1
\* record are NOT_REACHED here.
OfpactToNxast(o) ==
    CASE o.type = "RESUBMIT"       -> OfpactResubmitToNxast(o)
      [] o.type = "SET_TUNNEL"     -> OfpactSetTunnelToNxast(o)
      [] o.type = "WRITE_METADATA" -> OfpactWriteMetadataToNxast(o)
      [] o.type = "NOTE"           -> OfpactNoteToNxast(o)
      [] o.type = "DEC_TTL"        -> OfpactDecTtlToNxast(o)
      [] o.type = "EXIT"           -> <<WireAction("NXAST_EXIT", 16, "-")>>
      [] o.type = "PUSH_MPLS"      -> <<WireAction("NXAST_PUSH_MPLS", 16, o.arg)>>
      [] o.type = "POP_MPLS"       -> <<WireAction("NXAST_POP_MPLS", 16, o.arg)>>
      [] OTHER                     -> <<NotReached>>

\* Variants without the strip_vlan case, for the mutation runs.
OfpactToOpenflow10NoStrip(o) ==
    CASE o.type = "OUTPUT"       -> <<WireAction("OFPAT10_OUTPUT", 8, o.arg)>>
      [] o.type = "ENQUEUE"      -> <<WireAction("OFPAT10_ENQUEUE", 16, o.arg)>>
      [] o.type = "SET_VLAN_VID" -> <<WireAction("OFPAT10_SET_VLAN_VID", 8, o.arg)>>
      [] o.type \in {"PUSH_VLAN", "CLEAR_ACTIONS", "GOTO_TABLE", "METER"} -> <<>>
      [] OTHER                   -> OfpactToNxast(o)

OfpactToOpenflow10(o) ==
    CASE o.type = "OUTPUT"       -> <<WireAction("OFPAT10_OUTPUT", 8, o.arg)>>
      [] o.type = "ENQUEUE"      -> <<WireAction("OFPAT10_ENQUEUE", 16, o.arg)>>
      [] o.type = "SET_VLAN_VID" -> <<WireAction("OFPAT10_SET_VLAN_VID", 8, o.arg)>>
      [] o.type = "STRIP_VLAN"   -> <<WireAction("OFPAT10_STRIP_VLAN", 8, "-")>>
      [] o.type \in {"PUSH_VLAN", "CLEAR_ACTIONS", "GOTO_TABLE", "METER"} -> <<>>
      [] OTHER                   -> OfpactToNxast(o)

OfpactDecTtlToOpenflow11(o) ==
    IF /\ Len(o.arg) = 1 /\ o.arg[1] = 0
       /\ o.compat \in {"INVALID", "OFPAT11_DEC_NW_TTL"}
    THEN <<WireAction("OFPAT11_DEC_NW_TTL", 8, "-")>>
    ELSE OfpactDecTtlToNxast(o)

OfpactToOpenflow11(o) ==
    CASE o.type = "OUTPUT"       -> <<WireAction("OFPAT11_OUTPUT", 16, o.arg)>>
      [] o.type = "SET_VLAN_VID" -> <<WireAction("OFPAT11_SET_VLAN_VID", 8, o.arg)>>
      [] o.type = "STRIP_VLAN"   -> <<WireAction("OFPAT11_POP_VLAN", 8, "-")>>
      [] o.type = "PUSH_VLAN"    ->
            <<WireAction("OFPAT11_PUSH_VLAN", 8, IF Centec THEN o.arg ELSE "0x8100")>>
      [] o.type = "DEC_TTL"      -> OfpactDecTtlToOpenflow11(o)
      [] o.type = "PUSH_MPLS"    -> <<WireAction("OFPAT11_PUSH_MPLS", 8, o.arg)>>
      [] o.type = "POP_MPLS"     -> <<WireAction("OFPAT11_POP_MPLS", 8, o.arg)>>
      [] o.type \in {"ENQUEUE", "WRITE_METADATA"} -> <<>>
      [] o.type \in {"CLEAR_ACTIONS", "GOTO_TABLE", "METER"} -> <<NotReached>>
      [] OTHER                   -> OfpactToNxast(o)

\* The bytes a list of wire records occupies.
WireBytes(w) == FoldLeft(LAMBDA n, a : n + a.len, 0, w)

\* ofpacts_put_openflow10: each ofpact appended in turn.
PutOpenflow10(acts) == FlattenSeq([i \in DOMAIN acts |-> OfpactToOpenflow10(acts[i])])

\* ofpacts_put_openflow11_actions (the bytes it returns are WireBytes of
\* the records it appends).
PutOpenflow11Actions(acts) == FlattenSeq([i \in DOMAIN acts |-> OfpactToOpenflow11(acts[i])])

\* The encoder a caller picks for the version it speaks.
PutOpenflow(version, acts) ==
    IF version = "OF10" THEN PutOpenflow10(acts) ELSE PutOpenflow11Actions(acts)

(***************************************************************************)
(* The canonical wire form of an accepted record in a dialect (spec 4.F): *)
(* canonical length, reserved bytes zero.  In a 1.1 list the NX MPLS      *)
(* records have a 1.1 twin of the same meaning, and no compat remembers   *)
(* which one was sent.                                                     *)
(***************************************************************************)
CanonicalLen(version, a) ==
    CASE a.type = "NXAST_DEC_TTL_CNT_IDS" ->
            CntIdsHeaderLen + RoundUp(2 * Len(a.arg), OFP_ACTION_ALIGN)
      [] a.type = "NXAST_NOTE" -> a.len
      [] a.type \in DOMAIN NXTable -> NXTable[a.type].size
      [] a.type \in DOMAIN OF10Table /\ version = "OF10" -> OF10Table[a.type].size
      [] a.type \in DOMAIN OF11Table -> OF11Table[a.type].size

MplsTwin == ("NXAST_PUSH_MPLS" :> "OFPAT11_PUSH_MPLS") @@ ("NXAST_POP_MPLS" :> "OFPAT11_POP_MPLS")

CanonicalAction(version, a) ==
    IF version = "OF11" /\ a.type \in DOMAIN MplsTwin
    THEN [a EXCEPT !.type = MplsTwin[a.type], !.len = OF11Table[MplsTwin[a.type]].size]
    ELSE [a EXCEPT !.len = CanonicalLen(version, a), !.zero = TRUE]

(***************************************************************************)
(* ofpacts_pull_actions: the whole call on a request                      *)
(* [wire, actionsLen, msgLen]: the length checks on the message, the walk, *)
(* then ofpacts_verify; any error leaves the ofpacts empty.               *)
(***************************************************************************)
PullActions(version, req) ==
    IF req.actionsLen % OFP_ACTION_ALIGN # 0 \/ req.actionsLen > req.msgLen
    THEN Fail("OFPBRC_BAD_LEN")
    ELSE LET r == FromOpenflow(version, req.wire, req.actionsLen \div OFP_ACTION_ALIGN)
             e == OfpactsVerify(r.acts)
         IN  IF r.err # None THEN r
             ELSE IF e # None THEN Fail(e)
             ELSE r

\* ofpacts_pull_openflow10 and ofpacts_pull_openflow11_actions: the pull
\* with the dialect's record translator.
PullOpenflow10(req) == PullActions("OF10", req)

PullOpenflow11Actions(req) == PullActions("OF11", req)


(***************************************************************************)
(* What the rest of the switch asks of an ofpact list: whether it outputs *)
(* to a port (ofpact_outputs_to_port, ofpacts_output_to_port) and whether *)
(* two lists are the same (ofpacts_equal).                                 *)
(***************************************************************************)
\* Variant in which enqueue is not counted as an output, for the mutation
\* runs.
OfpactOutputsToPortNoEnqueue(o, port) ==
    CASE o.type = "OUTPUT"     -> o.arg = port
      [] o.type = "CONTROLLER" -> port = "controller"
      [] OTHER                 -> FALSE

\* ofpact_outputs_to_port: output and enqueue name their port, a
\* controller action outputs to OFPP_CONTROLLER, and every other kind
\* (output_reg and bundle included) outputs to no port.
OfpactOutputsToPort(o, port) ==
    CASE o.type = "OUTPUT"     -> o.arg = port
      [] o.type = "ENQUEUE"    -> o.arg = port
      [] o.type = "CONTROLLER" -> port = "controller"
      [] OTHER                 -> FALSE

\* ofpacts_output_to_port: the first ofpact that outputs to port answers.
OfpactsOutputToPort(acts, port) ==
    \E i \in DOMAIN acts : OfpactOutputsToPort(acts[i], port)

\* ofpacts_equal: the same length and the same bytes; the compat field is
\* part of the bytes.
OfpactsEqual(a, b) == Len(a) = Len(b) /\ a = b

=============================================================================
