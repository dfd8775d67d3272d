# TLA+ models of the OpenFlow action codec (`src/ovs/lib/ofp-actions.c`)

The repository's only source is the Open vSwitch action/instruction codec,
with the `_OFP_CENTEC_` build branches. The codec translates between three
forms:

- wire OpenFlow 1.0 action lists;
- wire OpenFlow 1.1 action lists and instruction lists;
- the internal `ofpact` list.

Nothing runs concurrently and nothing is persisted. The hard parts are:

- walks over length-prefixed records that a peer controls;
- build-dependent branches;
- the choice of wire shape, steered by `ofpact.compat`;
- the order in which instruction slots are materialised and then verified.

The models therefore check one call at a time. They explore every request
drawn from small catalogues, one loop iteration per step.

## Modules

| Module | Models | Source |
|---|---|---|
| `OfpCodec` | Pure operators for the opcode tables (spec-modelled, since they live in headers) and the `decode_*_action` length rules. Also the `ofpact_from_openflow10/11` and `ofpact_from_nxast` translations with their per-record helpers (`output_from_openflow10/11`, `enqueue_from_openflow10`, `resubmit_from_openflow`, `resubmit_table_from_openflow`, `metadata_from_nxast`, `note_from_openflow`), `action_is_valid`, the `ofpacts_from_openflow` walk, `ofpacts_verify`, the `ofpact_to_*` encoders with the `ofpact_*_to_nxast` helpers, `ofpacts_put_openflow10/11_actions` and the entry points `ofpacts_pull_openflow10`/`ofpacts_pull_openflow11_actions`. Also the output queries `ofpact_outputs_to_port`/`ofpacts_output_to_port` and `ofpacts_equal`. | lines 38-1899, 1970-2068, 2420-2426 |
| `PullActionsSpec` | The abstract contract of an action pull, stated from spec 4.A, 6.1 and 7 without the walk. A call succeeds exactly when `actions_len` is aligned and present, a prefix of the records tiles it exactly with aligned records of at least one unit, each of those records translates, and the translations pass `ofpacts_verify`. On success it returns the translations in wire order; otherwise it returns an error kind and no ofpacts. It returns in one step, and (`LiveSpec`) that step is eventually taken. It reuses the per-record translation and the order check, which are checked on their own. | spec 4.A, 7 |
| `ActionPull` | The same call step by step. Each `DecodeAction` is one `ACTION_FOR_EACH` iteration. `PullRejected`/`PullAccepted` are the length checks and `ofpbuf_try_pull`. `EndWalk` is the loop exit, leftover units, `ofpacts_verify` and the clear on error. | 517-626 |
| `OfpInstructions` | Operators for `instruction_is_valid`, `decode_openflow11_instruction` and the stages of `ofpacts_pull_openflow11_instructions` (meter, apply, clear, Centec write, write-metadata, goto, write refused, then verify). Also `ofpacts_put_openflow11_instructions` with `ofpacts_update_instruction_actions`. | 916-1172, 1902-1966 |
| `InstructionPull` | The instruction pull step by step. `DecodeInstruction` is one `INSTRUCTION_FOR_EACH` iteration, including the duplicate check on `insts[type]`. `EndWalk` is leftover units or materialisation. | 969-1069 |
| `OfpactEncode` | Put an ofpact list with `ofpacts_put_openflow10/11_actions`, then pull it back with `ofpacts_pull_openflow10/11_actions`. | 638-644, 1025-1032, 1711-1720, 1887-1899 |
| `VerifyOrder` | `ofpacts_verify`'s loop, one ofpact per step. | 1307-1345 |
| `OfpactCheck` | `ofpacts_check`: one `ofpact_check__` per step. It keeps the running `dl_type` that push/pop_mpls overwrite and a reg_load is checked against. Ports are abstracted to their relation to `max_ports`. The field prerequisites come from the spec, because `meta-flow.c` is outside `src/`. | 1174-1302 |
| `OfpFormat` | The text formatter: `ofpacts_format`, `print_note`, `print_dec_ttl` and the `ofpact_format` cases of the modelled kinds, both build branches, with the instruction names of `inst_info`/`ofpact_instruction_name_from_type`. Text is a token sequence: commas and parentheses are tokens of their own, and every other run of characters is one string token. It also has the reader that splits a dump back into items at the commas outside parentheses. | 886-901, 2072-2105, 2124-2403 |
| `DecTtlCntIds` | `dec_ttl_cnt_ids_from_openflow` together with the ofpbuf it appends to. Each allocation has a generation number. `ofpbuf_put` moves the data to a new generation when the tailroom is short. A read through the stale `ids` pointer is a nondeterministic choice of value, because it is undefined. | 185-219 |

`MC*` modules define the finite catalogues and request sets for TLC.

### Data abstraction

A wire record is `[type, len, arg, zero]`:

- `len` is the header length in bytes;
- `arg` is the one field the properties tell apart (a port class, a table id, an ethertype, a controller-id list);
- `zero` says whether the must-be-zero bytes are zero.

An ofpact is `[type, compat, arg]`. An instruction is `[type, len, acts, arg]`, where `acts` is its inner wire action list.

A request also names its entry point (`version`): `ofpacts_pull_openflow10` or `ofpacts_pull_openflow11_actions`.

The walk does not store byte offsets. Records are laid out back to back by their own `len`, and `off`/`pos` track the current one. `touched` records the furthest byte the decoder has read. A request is `[version, wire, actionsLen, msgLen]`.

## Runs

"Pass" runs check every listed property. "Violation" runs reproduce a finding.
All cfgs say `CHECK_DEADLOCK FALSE`, because each call returns and the final
state (`pc = "done"`) is terminal by design.

| Run | Checks | Shows |
|---|---|---|
| act_centec | `TypeOK`, `WalkInBounds`, `RoundTrip`, `OutputsMatchWire`, `ImplementsContract` | Covers 1.0 and 1.1 lists. The walk never reads past `actions_len`. An accepted list re-encodes to its records in canonical form. `ofpacts_output_to_port` on the result is true for exactly the ports that the output and enqueue records name. The stepwise pull refines `PullActionsSpec`: it accepts exactly the requests whose records tile `actions_len` and translate, and it leaves no ofpacts on any error. Under weak fairness every pull returns. |
| act_v11_ovs (violation) | `RoundTrip` | Without `_OFP_CENTEC_`, the list [OFPAT11_PUSH_VLAN, NX write_metadata] shows two defects in one trace. The push_vlan becomes two ofpacts, the first with ethertype 0 (line 747). The write_metadata is accepted but never encoded back (line 1828). |
| inst_ovs, inst_centec | `TypeOK`, `WalkInBounds`, `OfpactRoundTrip`, `WireRoundTrip`, `AcceptsWellFormed` | Instruction walks stay in bounds. Put-then-pull gives back the same ofpacts. Put gives the decoded instructions in the fixed order of spec 4.E. Every well-formed list of the build's kinds is accepted. |
| inst_centec_refused (violation) | `AcceptsWellFormed` | The inputs are well-formed lists of clear-actions and write-actions. A Centec build refuses clear + write-actions with UNSUPPORTED_ORDER (line 1124), because write-actions are decoded after clear into the same list. It also refuses every write-metadata and goto-table instruction with UNSUP_INST (line 1141), but that is a deliberate limit of the build, not a finding. |
| inst_centec_write (violation) | `WireRoundTrip` | The request is a write-actions instruction holding [output, NX write_metadata]. Its put-back shows two defects in one trace. The actions are put back as apply-actions (line 1923). The write_metadata leaves the list and becomes a write-metadata instruction (line 1940). |
| encode_v10 | `TypeOK`, `EncodeDecode`, `DumpReadable` | Verified 1.0 ofpact lists of up to 3, put and pulled, keep their meaning. The only ofpacts the 1.0 encoder leaves out are push_vlan, clear-actions and goto-table, which 1.0 has no record for (line 1666); the rest come back in order. The dump of a list splits back into one item per ofpact, and two ofpacts share an item only when they mean the same thing. |
| encode_note (violation) | `EncodeDecode` | The list is a padded note and an enqueue, put as 1.1 actions. The enqueue is dropped (line 1755), so the flow loses its output. The note's padding is counted into its length on decode (line 161). |
| encode_dec_ttl (violation) | `DecTtlShape` | A dec_ttl with ids `[0]` and compat unset is emitted as dec_ttl_cnt_ids (line 1440), against spec scenario 7. |
| verify_order | `VerifyMatchesSpec` | `ofpacts_verify` accepts exactly the lists that the spec's partial order (apply, clear, write-metadata, goto) accepts, for every list of up to 4 ofpacts. |
| check | `CheckMatchesSpec` | A list is accepted exactly when each port and reg_load field is valid for the packet at that point. |
| cnt_ids_realloc (violation) | `IdsMatchCount` | Two ids with no tailroom left: the first `ofpbuf_put` reallocates the buffer. The loop condition then reads `n_controllers` through the freed `ids` pointer and stops early, so the ofpact declares 2 ids and holds 1 (line 209). With enough tailroom, no reallocation happens and the property holds. |

Each property of a passing run also has a mutant in `PROJECT.json`: a
plausible bug in the mapped code that TLC finds under that run's cfg. The
mutants are:

- the bound on `left` dropped from `action_is_valid`/`instruction_is_valid`;
- the resubmit compat test dropped;
- leftover units accepted at the end of the action walk;
- the break at an instruction ofpact missing from the apply run;
- clear materialised before apply;
- the STRIP_VLAN case dropped from the 1.0 encoder;
- the note padding dropped from the dec_ttl_cnt_ids encoder;
- `next < inst` used instead of `<=` in verify;
- enqueue dropped from `ofpact_outputs_to_port`;
- `print_dec_ttl` testing compat against NXAST_DEC_TTL instead of NXAST_DEC_TTL_CNT_IDS;
- a reg_load checked against the flow's own dl_type.

## Bounds

- **Action lists** have up to 2 records (`MaxRecs`) from catalogues that cover these cases:
  - every modelled type;
  - good, short, overlong, misaligned (4) and zero lengths;
  - non-zero pad bytes;
  - the compat-relevant argument values.

  `actions_len` is the extent, the extent + 4 (misaligned) or one unit short (truncated last record). The message holds the extent or one unit less. Two records are enough for an error after a successful record (the clear), for a record that overruns the remaining units, and for ordering between two ofpacts.
- **Instruction lists** have up to 3 instructions (`MaxInsts`). That covers duplicates, every pair of kinds, and the Centec apply/write conflict. Inner action lists hold up to 2 actions.
- **Encoder lists** have up to 3 ofpacts. A dec_ttl whose ids are not [0] carries compat NXAST_DEC_TTL_CNT_IDS, as both the decoder and the flow parser set it. Only the plain [0] form has compat unset. The 1.0 lists also hold push_vlan, clear-actions and goto-table. A flow that a 1.1 controller installed holds these, and the switch dumps it to a 1.0 controller. Verified lists put the two instructions last. Three ofpacts give every pair of catalogue entries for `DumpReadable`, including pairs of dec_ttl, set_tunnel and resubmit that differ only in compat or ids.
- **The formatter** takes a resubmit's `in_port`, which the ofpact model does not carry, to be a physical port.
- **`VerifyOrder`** covers all lists of up to 4 over the 5 categories.
- **`OfpactCheck`** covers all lists of up to 3 over 13 ofpacts: output and enqueue to a low, high or controller port; reg_load to an MPLS, IP or register field; push_mpls, two pop_mpls, and set_vlan_vid. Each list is checked for flows of 3 ethertypes. Three is enough for a push followed by a pop followed by a load.
- **`DecTtlCntIds`** covers records of 0-2 ids, a record too short for its count and one with non-zero pad bytes, with 0, 2 or 4 bytes of tailroom. `MaxCount = 4` bounds the value a freed read may give.

## Fairness

Every action of a module belongs to one synchronous call on one thread. Once
called, the code runs to its return without waiting for anything. So the only
fairness the code justifies is weak fairness of the call's own steps.
`ActionPull` has `FairSpec == Spec /\ WF_vars(Next)`, and the run act_centec
uses it. `PullActionsSpec` is written from spec 4.A and 7, not from the walk's lines. `PullActionsSpec!LiveSpec` adds `WF_vars(Return)`: a call that has
been made returns. `ImplementsContract` is `Contract!LiveSpec`, so it checks
the refinement and also that every pull returns.

The pull ends because each iteration consumes at least one 8-byte unit of
`left`, or ends the walk on an error. A walk that logged a bad record and kept
going without advancing would spin on it forever. TLC then reports the
contract's liveness violated, with a trace that stutters at that record.
`action_is_valid` refuses zero-length records, and the decoders' length checks
refuse them too, so a single dropped check does not make the walk spin. The
other modules' properties are safety properties of the state where the call
has returned, and their runs use `Spec`.

## Not modelled

- **The `ofpact_check__` cases for output_reg, bundle, reg_move, learn and multipath**: they need the flow-field tables from outside `src/`.
- **`ofpacts_output_to_group`**: the Centec group action is not among the modelled kinds.
- **The formatter cases of the kinds not modelled** (controller, fin_timeout, learn, multipath, bundle, register and field rewrites).
- **The Centec formatter**: it prints every dec_ttl as `dec_nw_ttl` and drops its controller ids, so `DumpReadable` would fail there. It is checked only for the plain build.
- **The Centec reg_load exemption (line 1220)**: the Centec build accepts any reg_load to MPLS_LABEL or MPLS_TC, and its comment defers the check to the adapter. The `check` run uses the plain build.
- **The deletion of an empty 1.1 apply-actions run (line 1911)**: only an enqueue translates to nothing in 1.1, and pulls never produce one, so no modelled input reaches it.
- **The inner action walk of an apply-actions or write-actions instruction**: the instruction runs treat its pull as one translated record. The action walk itself is checked by act_centec.
- **The register, learn, multipath, bundle, set-field and L2-L4 rewrite actions**: their translation is a field copy that the properties do not distinguish.
- **Buffer reallocation elsewhere**: it is modelled only in `DecTtlCntIds`. No other decoder keeps a pointer into the ofpbuf across a later put. `note_from_openflow` and `dec_ttl_from_openflow` finish their writes before the next put, or refresh the pointer from `out->l2`.
- **Write-actions in a dump (line 2400)**: `ofpacts_format` prints a Centec write-actions instruction's actions as plain actions, because the ofpact list keeps no mark of them. No ofpact kind exists to model the mark with. inst_centec_write shows the same loss on the put side.
