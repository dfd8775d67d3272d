------------------------------ MODULE OfpFormat ------------------------------
(***************************************************************************)
(* The text formatter: ofpacts_format and the ofpact_format cases of the  *)
(* modelled kinds.                                                         *)
(*                                                                         *)
(* Text is a sequence of tokens: the parentheses and the commas that      *)
(* separate items are tokens of their own, every other run of characters  *)
(* the code appends between two of them is one string token.  A value the *)
(* code prints (a port, a table id, an ethertype) is the text of its      *)
(* abstract value, so distinct values print distinctly.                    *)
(***************************************************************************)
EXTENDS OfpCodec

\* The text of an abstract value.
ValueText(x) == IF x \in STRING THEN x ELSE ToString(x)

\* ofputil_format_port (spec_modelled: lib/ofp-util.c): a port below
\* OFPP_MAX prints as its number, a reserved port by name.
FormatPort(p) ==
    CASE p = "phys"       -> "1"
      [] p = "in_port"    -> "IN_PORT"
      [] p = "controller" -> "CONTROLLER"
      [] OTHER            -> "65280"

RECURSIVE HexBytes(_)
\* print_note: the payload bytes, two hex digits each, dot-separated.
HexBytes(n) ==
    IF n = 0 THEN "" ELSE IF n = 1 THEN "00" ELSE HexBytes(n - 1) \o ".00"

PrintNote(o) == <<"note:" \o HexBytes(o.arg)>>

\* The controller ids of a dec_ttl, comma-separated.
IdsText(ids) ==
    FlattenSeq([i \in DOMAIN ids |->
                   (IF i > 1 THEN <<",">> ELSE <<>>) \o <<ToString(ids[i])>>])

\* Variant that prints the ids when compat is NXAST_DEC_TTL, for the
\* mutation runs.
PrintDecTtlWrongCompat(o) ==
    <<"dec_ttl">> \o
    (IF o.compat = "NXAST_DEC_TTL" THEN <<"(">> \o IdsText(o.arg) \o <<")">> ELSE <<>>)

\* print_dec_ttl: the ids in parentheses only for a dec_ttl_cnt_ids.
PrintDecTtl(o) ==
    <<"dec_ttl">> \o
    (IF o.compat = "NXAST_DEC_TTL_CNT_IDS" THEN <<"(">> \o IdsText(o.arg) \o <<")">> ELSE <<>>)

\* The resubmit case: in_port is not part of the modelled ofpact and is
\* taken to be a physical port.  The compact form needs table 255 and an
\* in_port other than OFPP_IN_PORT; otherwise each part is printed only when
\* it is not its default.
FormatResubmit(o) ==
    LET inPort == "phys" IN
    IF inPort # "in_port" /\ o.arg = 255
    THEN <<"resubmit:" \o FormatPort(inPort)>>
    ELSE <<"resubmit", "(">>
         \o (IF inPort # "in_port" THEN <<FormatPort(inPort)>> ELSE <<>>)
         \o <<",">>
         \o (IF o.arg # 255 THEN <<ToString(o.arg)>> ELSE <<>>)
         \o <<")">>

\* inst_info: the NAME column of OVS_INSTRUCTIONS (ofp-actions.h), one per
\* ovs_instruction_type.
InstInfo ==
    [t \in {"APPLY_ACTIONS", "CLEAR_ACTIONS", "WRITE_ACTIONS", "WRITE_METADATA",
           "GOTO_TABLE", "METER"} |->
        CASE t = "APPLY_ACTIONS"  -> "apply_actions"
          [] t = "CLEAR_ACTIONS"  -> "clear_actions"
          [] t = "WRITE_ACTIONS"  -> "write_actions"
          [] t = "WRITE_METADATA" -> "write_metadata"
          [] t = "GOTO_TABLE"     -> "goto_table"
          [] t = "METER"          -> "meter"]

InstructionNameFromType(t) == InstInfo[t]

\* The instruction cases of ofpact_format: the instruction's name, then its
\* argument: the metadata (with the full mask no mask is printed), or the
\* table or meter id as a number.
FormatInstruction(o) ==
    CASE o.type = "CLEAR_ACTIONS"  -> <<InstructionNameFromType(o.type)>>
      [] o.type = "WRITE_METADATA" -> <<InstructionNameFromType(o.type) \o ":" \o ValueText(o.arg)>>
      [] OTHER                     -> <<InstructionNameFromType(o.type) \o ":" \o ToString(o.arg)>>

\* ofpact_format for the modelled kinds.  Under _OFP_CENTEC_ push_vlan
\* prints its own ethertype and dec_ttl prints as dec_nw_ttl without ids.
OfpactFormat(o) ==
    CASE o.type = "OUTPUT" ->
            IF o.arg = "phys" THEN <<"output:" \o FormatPort(o.arg)>>
            ELSE IF o.arg = "controller" THEN <<FormatPort(o.arg) \o ":max_len">>
            ELSE <<FormatPort(o.arg)>>
      [] o.type = "ENQUEUE"      -> <<"enqueue:" \o FormatPort(o.arg) \o "q0">>
      [] o.type = "SET_VLAN_VID" -> <<"mod_vlan_vid:" \o ValueText(o.arg)>>
      [] o.type = "STRIP_VLAN"   -> <<"strip_vlan">>
      [] o.type = "PUSH_VLAN"    ->
            <<"push_vlan:" \o (IF Centec THEN ValueText(o.arg) ELSE "0x8100")>>
      [] o.type = "DEC_TTL"      -> IF Centec THEN <<"dec_nw_ttl">> ELSE PrintDecTtl(o)
      [] o.type = "SET_TUNNEL"   ->
            <<"set_tunnel"
              \o (IF o.arg = "big" \/ o.compat = "NXAST_SET_TUNNEL64" THEN "64" ELSE "")
              \o ":" \o ValueText(o.arg)>>
      [] o.type = "RESUBMIT"     -> FormatResubmit(o)
      [] o.type = "NOTE"         -> PrintNote(o)
      [] o.type = "PUSH_MPLS"    -> <<"push_mpls:" \o ValueText(o.arg)>>
      [] o.type = "POP_MPLS"     -> <<"pop_mpls:" \o ValueText(o.arg)>>
      [] o.type = "EXIT"         -> <<"exit">>
      [] o.type \in {"CLEAR_ACTIONS", "WRITE_METADATA", "GOTO_TABLE", "METER"} ->
            FormatInstruction(o)

\* ofpacts_format: "actions=", then "drop" for the empty list or the
\* ofpacts separated by commas.
OfpactsFormat(acts) ==
    <<"actions=">>
    \o (IF acts = <<>> THEN <<"drop">>
        ELSE FlattenSeq([i \in DOMAIN acts |->
                            (IF i > 1 THEN <<",">> ELSE <<>>) \o OfpactFormat(acts[i])]))

-----------------------------------------------------------------------------
(* Reading a dump back, as a controller or ovs-ofctl does: after           *)
(* "actions=", the items are separated by the commas outside parentheses.  *)
RECURSIVE SplitItems(_, _, _, _)
SplitItems(toks, item, depth, items) ==
    IF toks = <<>> THEN Append(items, item)
    ELSE LET t == Head(toks) IN
         IF t = "," /\ depth = 0
         THEN SplitItems(Tail(toks), <<>>, 0, Append(items, item))
         ELSE SplitItems(Tail(toks), Append(item, t),
                         depth + (IF t = "(" THEN 1 ELSE IF t = ")" THEN -1 ELSE 0),
                         items)

DumpItems(text) == SplitItems(Tail(text), <<>>, 0, <<>>)

=============================================================================
