--------------------------- MODULE MCInstructionPull ---------------------------
(***************************************************************************)
(* Model of ofpacts_pull_openflow11_instructions for TLC: every list of up *)
(* to MaxInsts instructions drawn from a small catalogue, pulled with     *)
(* instructions_len equal to their extent, one unit short, or misaligned, *)
(* from a message that has or lacks those bytes.  A catalogue is chosen   *)
(* per run by the instruction kinds and inner action lists it admits.     *)
(***************************************************************************)
EXTENDS InstructionPull

CONSTANT MaxInsts

\* Inner 1.1 action lists.
Output(p)   == WireAction("OFPAT11_OUTPUT", 16, p)
Exit        == WireAction("NXAST_EXIT", 16, "-")
PushVlan    == WireAction("OFPAT11_PUSH_VLAN", 8, "0x8100")
NxMetadata  == WireAction("NXAST_WRITE_METADATA", 32, "md")

InnerPlain == {<<>>, <<Output("phys")>>, <<Output("bad")>>, <<Output("phys"), Exit>>}
InnerPushVlan == {<<PushVlan>>}
\* An action list that ends in the NX write_metadata action.
OutputNxMetadata == <<Output("phys"), NxMetadata>>

\* The inner lists a write-actions instruction is tried with.
WriteInner == {<<>>, <<Output("phys")>>, OutputNxMetadata}

\* The catalogue: instructions of the given wire kinds.  Apply-actions
\* carry the inner lists of inner, and also come truncated (an inner list
\* one unit longer than the instruction) and with an unusable length;
\* write-actions carry an empty list or one output; clear-actions also
\* comes at a length its fixed size refuses.
InstCatalogue(kinds, inner) ==
    {i \in
        {Inst("APPLY_ACTIONS", 8 + WireBytes(as), as, "-") : as \in inner}
        \cup {Inst("WRITE_ACTIONS", 8 + WireBytes(as), as, "-") :
                as \in inner \cap WriteInner}
        \cup {Inst("APPLY_ACTIONS", 16, <<Output("phys")>>, "-"),
              Inst("APPLY_ACTIONS", 4, <<>>, "-"),
              Inst("CLEAR_ACTIONS", 8, <<>>, "-"), Inst("CLEAR_ACTIONS", 16, <<>>, "-"),
              Inst("WRITE_METADATA", 24, <<>>, "md"),
              Inst("GOTO_TABLE", 8, <<>>, 1), Inst("METER", 8, <<>>, 1),
              Inst("EXPERIMENTER", 8, <<>>, "-"), Inst("UNKNOWN", 8, <<>>, "-")} :
     i.type \in kinds}

InstLayoutOk(i) == i.len % OFP11_INSTRUCTION_ALIGN = 0 /\ i.len >= OFP11_INSTRUCTION_ALIGN

\* An instruction with an unusable length can only be the last one.
InstLists(kinds, inner) ==
    {w \in SeqOf(InstCatalogue(kinds, inner), MaxInsts) :
        \A i \in 1..(Len(w) - 1) : InstLayoutOk(w[i])}

InstExtent(w) ==
    FoldLeft(LAMBDA n, i : n + (IF InstLayoutOk(i) THEN i.len ELSE 8), 0, w)

\* instructions_len is the extent or one unit short of it (the last
\* instruction truncated); the checks on the message as a whole (a
\* misaligned length, a message shorter than it) do not look at the
\* instructions, and are tried on the lists of at most one.
InstLens(w) ==
    {InstExtent(w)} \cup (IF InstExtent(w) >= 8 THEN {InstExtent(w) - 8} ELSE {})
    \cup (IF Len(w) <= 1 THEN {InstExtent(w) + 4} ELSE {})

MsgLens(w, n) == {n} \cup (IF Len(w) <= 1 /\ n >= 8 THEN {n - 8} ELSE {})

InstRequests(kinds, inner) ==
    {[insts |-> r[1], instsLen |-> r[2], msgLen |-> r[3]] :
        r \in UNION {UNION {{<<w, n, m>> : m \in MsgLens(w, n)} : n \in InstLens(w)} :
                     w \in InstLists(kinds, inner)}}

AllKinds == InstWireTypes

InputsPlain == InstRequests(AllKinds, InnerPlain)
InputsCentec ==
    InstRequests({"APPLY_ACTIONS", "CLEAR_ACTIONS", "METER", "EXPERIMENTER", "UNKNOWN"},
                 InnerPlain \cup InnerPushVlan)
InputsClearWrite == InstRequests({"CLEAR_ACTIONS", "WRITE_ACTIONS"}, InnerPlain)
\* Whole pulls of a write-actions instruction whose actions end in an NX
\* write_metadata, alone or after a meter.
InputsWrite ==
    {r \in InstRequests({"WRITE_ACTIONS", "METER"}, InnerPlain \cup {OutputNxMetadata}) :
        /\ \E i \in DOMAIN r.insts :
              r.insts[i].type = "WRITE_ACTIONS" /\ r.insts[i].acts = OutputNxMetadata
        /\ r.instsLen = InstExtent(r.insts)
        /\ r.msgLen = r.instsLen}

=============================================================================
