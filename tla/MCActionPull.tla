---------------------------- MODULE MCActionPull ----------------------------
(***************************************************************************)
(* Model of ofpacts_pull_openflow10/11_actions for TLC: every wire list of *)
(* up to MaxRecs records drawn from a small catalogue per dialect, pulled  *)
(* with actions_len equal to the records' extent, one unit short of it     *)
(* (a truncated last record) or misaligned, from a message that has or     *)
(* lacks those bytes.                                                      *)
(***************************************************************************)
EXTENDS ActionPull

CONSTANT MaxRecs

W(t, l, x, z) == [type |-> t, len |-> l, arg |-> x, zero |-> z]

\* Records understood the same way in both dialects (NX vendor actions and
\* malformed envelopes).
VendorCatalogue == {
    W("NXAST_RESUBMIT", 16, "-", TRUE),
    W("NXAST_RESUBMIT_TABLE", 16, 255, TRUE), W("NXAST_RESUBMIT_TABLE", 16, 5, TRUE),
    W("NXAST_RESUBMIT_TABLE", 16, 5, FALSE),
    W("NXAST_SET_TUNNEL", 16, "small", TRUE),
    W("NXAST_SET_TUNNEL64", 24, "small", TRUE), W("NXAST_SET_TUNNEL64", 24, "big", TRUE),
    W("NXAST_WRITE_METADATA", 32, "md", TRUE), W("NXAST_WRITE_METADATA", 32, "md", FALSE),
    W("NXAST_NOTE", 16, "-", TRUE), W("NXAST_NOTE", 24, "-", TRUE),
    W("NXAST_DEC_TTL", 16, "-", TRUE),
    W("NXAST_DEC_TTL_CNT_IDS", 16, <<>>, TRUE), W("NXAST_DEC_TTL_CNT_IDS", 24, <<0, 1>>, TRUE),
    W("NXAST_DEC_TTL_CNT_IDS", 32, <<0, 1>>, TRUE), W("NXAST_DEC_TTL_CNT_IDS", 16, <<1>>, TRUE),
    W("NXAST_DEC_TTL_CNT_IDS", 24, <<0, 1>>, FALSE),
    W("NXAST_EXIT", 16, "-", TRUE), W("NXAST_EXIT", 24, "-", TRUE),
    W("NXAST_PUSH_MPLS", 16, "mpls", TRUE), W("NXAST_PUSH_MPLS", 16, "ip", TRUE),
    W("NXAST_POP_MPLS", 16, "ip", TRUE), W("NXAST_POP_MPLS", 16, "mpls", TRUE),
    W("NXAST_SNAT__OBSOLETE", 16, "-", TRUE), W("VENDOR_OTHER", 16, "-", TRUE),
    W("NXAST_EXIT", 8, "-", TRUE), W("UNKNOWN", 8, "-", TRUE),
    W("NXAST_EXIT", 4, "-", TRUE), W("NXAST_EXIT", 0, "-", TRUE)}

OF10Catalogue == {
    W("OFPAT10_OUTPUT", 8, "phys", TRUE), W("OFPAT10_OUTPUT", 8, "controller", TRUE),
    W("OFPAT10_OUTPUT", 8, "bad", TRUE), W("OFPAT10_OUTPUT", 16, "phys", TRUE),
    W("OFPAT10_SET_VLAN_VID", 8, "ok", TRUE), W("OFPAT10_SET_VLAN_VID", 8, "high", TRUE),
    W("OFPAT10_STRIP_VLAN", 8, "-", TRUE),
    W("OFPAT10_ENQUEUE", 16, "in_port", TRUE), W("OFPAT10_ENQUEUE", 16, "controller", TRUE)}

OF11Catalogue == {
    W("OFPAT11_OUTPUT", 16, "phys", TRUE), W("OFPAT11_OUTPUT", 16, "bad", TRUE),
    W("OFPAT11_OUTPUT", 8, "phys", TRUE),
    W("OFPAT11_SET_VLAN_VID", 8, "ok", TRUE), W("OFPAT11_SET_VLAN_VID", 8, "high", TRUE),
    W("OFPAT11_PUSH_VLAN", 8, "0x8100", TRUE), W("OFPAT11_PUSH_VLAN", 8, "0x88a8", TRUE),
    W("OFPAT11_POP_VLAN", 8, "-", TRUE), W("OFPAT11_DEC_NW_TTL", 8, "-", TRUE),
    W("OFPAT11_PUSH_MPLS", 8, "mpls", TRUE), W("OFPAT11_PUSH_MPLS", 8, "ip", TRUE),
    W("OFPAT11_POP_MPLS", 8, "ip", TRUE), W("OFPAT11_POP_MPLS", 8, "mpls", TRUE)}

\* The catalogue of dialect v, without the record types in exclude.
Catalogue(v, exclude) ==
    {a \in (IF v = "OF10" THEN OF10Catalogue ELSE OF11Catalogue) \cup VendorCatalogue :
        a.type \notin exclude}

LayoutOk(a) == a.len % OFP_ACTION_ALIGN = 0 /\ a.len >= OFP_ACTION_ALIGN

\* A record with an unusable length can only be the last one the walk sees.
Wires(v, exclude) ==
    {w \in SeqOf(Catalogue(v, exclude), MaxRecs) :
        \A i \in 1..(Len(w) - 1) : LayoutOk(w[i])}

Extent(w) ==
    FoldLeft(LAMBDA n, a : n + (IF LayoutOk(a) THEN a.len ELSE OFP_ACTION_ALIGN), 0, w)

ActionsLens(w) ==
    {Extent(w), Extent(w) + 4} \cup (IF Extent(w) >= 8 THEN {Extent(w) - 8} ELSE {})

Requests(v, exclude) ==
    {[version |-> v, wire |-> r[1], actionsLen |-> r[2], msgLen |-> r[3]] :
        r \in UNION {{<<w, n, m>> : n \in ActionsLens(w), m \in {Extent(w), Extent(w) - 8}} :
                       w \in Wires(v, exclude)}}

\* Both entry points; 1.1 lists without NX write_metadata, whose round trip
\* is the subject of its own run.
InputsBoth == Requests("OF10", {}) \cup Requests("OF11", {"NXAST_WRITE_METADATA"})

\* 1.1 lists that hold both an OFPAT11_PUSH_VLAN and an NX write_metadata
\* record, pulled whole, so that one counterexample shows what happens to
\* each.
InputsPushVlanMetadata ==
    {r \in Requests("OF11", {}) :
        /\ {"OFPAT11_PUSH_VLAN", "NXAST_WRITE_METADATA"} \subseteq {r.wire[i].type : i \in DOMAIN r.wire}
        /\ r.actionsLen = Extent(r.wire)
        /\ r.msgLen = r.actionsLen}

====
