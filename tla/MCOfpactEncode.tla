---------------------------- MODULE MCOfpactEncode ----------------------------
(***************************************************************************)
(* Model of the put/pull pair for TLC: every list of up to MaxActs        *)
(* ofpacts from a catalogue of the kinds the dialect's encoder writes,    *)
(* with compat unset as ofpact_init leaves it (ofp-actions.c:2424) or set *)
(* as a decoder set it.                                                    *)
(***************************************************************************)
EXTENDS OfpactEncode

CONSTANT MaxActs

O(t, c, x) == Ofpact(t, c, x)

\* Kinds both dialects write and read back as one record each.  A dec_ttl
\* whose ids are not [0] is a dec_ttl_cnt_ids, and both the decoder and
\* the flow parser give it that compat; only the plain [0] form is built
\* with compat unset.
Common == {
    O("OUTPUT", "INVALID", "phys"), O("OUTPUT", "INVALID", "controller"),
    O("SET_VLAN_VID", "INVALID", "ok"), O("STRIP_VLAN", "INVALID", "-"),
    O("RESUBMIT", "INVALID", 255), O("RESUBMIT", "INVALID", 5),
    O("RESUBMIT", "NXAST_RESUBMIT_TABLE", 255),
    O("SET_TUNNEL", "INVALID", "small"), O("SET_TUNNEL", "INVALID", "big"),
    O("SET_TUNNEL", "NXAST_SET_TUNNEL64", "small"),
    O("DEC_TTL", "NXAST_DEC_TTL", <<0>>), O("DEC_TTL", "NXAST_DEC_TTL_CNT_IDS", <<0, 1>>),
    O("DEC_TTL", "NXAST_DEC_TTL_CNT_IDS", <<>>), O("DEC_TTL", "NXAST_DEC_TTL_CNT_IDS", <<0>>),
    O("EXIT", "INVALID", "-"), O("PUSH_MPLS", "INVALID", "mpls"),
    O("POP_MPLS", "INVALID", "ip")}

\* Notes whose payload needs 6 (mod 8) bytes: no padding on the wire.
NotesUnpadded == {O("NOTE", "INVALID", 6), O("NOTE", "INVALID", 14)}
\* Notes whose payload is padded on the wire (spec 8: length 0 and 6).
NotesPadded == {O("NOTE", "INVALID", 0), O("NOTE", "INVALID", 3)}

\* Per dialect: 1.0 also writes enqueue and NX write_metadata, and is
\* handed push_vlan and the clear-actions and goto-table instructions of a
\* flow a 1.1 controller installed, which it has no record for; 1.1 the
\* Centec push_vlan.
Dialect ==
    IF Version = "OF10"
    THEN {O("ENQUEUE", "INVALID", "in_port"), O("WRITE_METADATA", "INVALID", "md"),
          O("PUSH_VLAN", "INVALID", "0x8100"), O("CLEAR_ACTIONS", "INVALID", "-"),
          O("GOTO_TABLE", "INVALID", 1)}
    ELSE {O("PUSH_VLAN", "INVALID", "0x88a8")}

\* Lists a caller holds have passed ofpacts_verify (the flow parser and
\* the decoders both run it).
ListsOf(S) == {l \in SeqOf(S, MaxActs) : OfpactsVerify(l) = None}

ListsPlain == ListsOf(Common \cup NotesUnpadded \cup Dialect)
\* A padded note beside an enqueue a 1.0 peer installed.
ListsNotesEnqueue ==
    {l \in ListsOf(Common \cup NotesPadded \cup {O("ENQUEUE", "INVALID", "in_port")}) :
        {"NOTE", "ENQUEUE"} \subseteq {l[i].type : i \in DOMAIN l}}
ListsDecTtl == ListsOf(Common \cup {O("DEC_TTL", "INVALID", <<0>>)})

=============================================================================
