------------------------------ MODULE Projections ------------------------------
(***************************************************************************)
(* Managed columnar projections of one table (netbadb-core columnar.rs,    *)
(* projection_catalog.rs and the projection calls of lib.rs; the files of  *)
(* netbadb-columnar): build, advance along the change stream, compact,     *)
(* refresh, attach, drop, and the reclaiming of change history, with a     *)
(* failing file operation or a crash at every step.                        *)
(*                                                                         *)
(* Every call holds the database exclusively, so a call in progress (op)   *)
(* meets only failures and crashes.  A file is replaced by renaming a      *)
(* synced candidate over it and syncing the directory: disk and man[l] are *)
(* the contents since the last sync, the current one last.  The end of the *)
(* process loses none of them, a power failure leaves any one.             *)
(*                                                                         *)
(*   tbl        tbl[v + 1] is the set of row versions at data version v    *)
(*   published  the version the published database snapshot names          *)
(*   stream     the change stream: enabled, generation, earliest frontier  *)
(*   pin        a runtime retention pin: its frontier and generation       *)
(*   cat, disk, mark  the projection catalog in memory, on disk, and the   *)
(*              identity high-water of its marker file                     *)
(*   man, files the manifest at each location, and the segment files       *)
(*   reg        ProjectionRegistry.entries                                 *)
(*   status     ok, recovery (recovery_required) or degraded               *)
(*   op         the call in progress and how far it is                     *)
(*   acked      (history) projections a caller was told exist              *)
(*   parted     (history) projections whose registry entry, catalog entry  *)
(*              and manifest may have parted: a call failed after renaming *)
(*              or removing the manifest, or in recording its generation,  *)
(*              or a process took up a manifest that was not synced        *)
(***************************************************************************)
EXTENDS Naturals, Sequences, FiniteSets, SequencesExt, FiniteSetsExt

CONSTANTS
    Locs,              \* projection directories
    Modes,             \* the build modes in use
    HotKeys,           \* the keys that commits change; rows 1 and 2 exist from the start
    MaxId, MaxVersion, MaxGen, MaxStreamGen,
    MaxFaults,         \* file operations that fail
    MaxStops,          \* crashes
    MaxWork            \* calls, failures and crashes, together

ASSUME ProjectionsAssumption ==
    /\ {MaxId, MaxVersion, MaxGen, MaxStreamGen} \subseteq Nat \ {0}
    /\ {MaxFaults, MaxStops, MaxWork} \subseteq Nat
    /\ Modes \subseteq {"Snapshot", "Incremental"} /\ HotKeys \subseteq Nat

VARIABLES phase, tbl, published, stream, pin, cat, disk, mark, man, files, reg, status, op,
          acked, parted, calls, faults, stops

sourceVars == <<tbl, published, stream>>
diskVars == <<disk, mark, man, files>>
boundVars == <<calls, faults, stops>>
historyVars == <<acked, parted>>
vars == <<phase, sourceVars, pin, cat, diskVars, reg, status, op, historyVars, boundVars>>

Ids == 1..MaxId
Versions == 0..MaxVersion
NoMan == [id |-> 0]
NoBuild == [id |-> 0]
NoPin == [on |-> FALSE, gen |-> 0, at |-> 0]
NoOp == [call |-> "none"]
NoCat == [next |-> 1, entries |-> [i \in {} |-> NoMan], pending |-> NoBuild]
NoReg == [i \in {} |-> NoMan]

Current == Len(tbl) - 1
Rows == tbl[Len(tbl)]

(* The change batch of data version v: the versions it ends and creates.   *)
Batch(v) == [old |-> tbl[v] \ tbl[v + 1], new |-> tbl[v + 1] \ tbl[v]]

Base(m) == <<m.id, m.gen, 0>>
DeltaName(m, d) == <<m.id, m.gen, d.after>>
FilesOf(m) == {Base(m)} \union {DeltaName(m, d) : d \in Range(m.deltas)}

WithFile(n, data) == [x \in DOMAIN files \union {n} |-> IF x = n THEN data ELSE files[x]]
Without(f, names) == [x \in DOMAIN f \ names |-> f[x]]
WithEntry(f, i, e) == [x \in DOMAIN f \union {i} |-> IF x = i THEN e ELSE f[x]]

-------------------------------------------------------------------------------
(* A projection: base rows under an overlay of deltas.                     *)

(* apply_overlay over the batches of the deltas, in order; ok is FALSE     *)
(* when a version would end twice or appear twice.                         *)
Overlay(m) ==
    LET apply(o, b) ==
            [ok |-> /\ o.ok /\ b.old \intersect o.suppressed = {}
                    /\ b.new \intersect (o.suppressed \union b.old \union o.live) = {},
             suppressed |-> o.suppressed \union b.old,
             live |-> (o.live \ b.old) \union b.new] IN
    FoldLeft(apply, [ok |-> TRUE, suppressed |-> {}, live |-> {}],
             FlattenSeq([i \in DOMAIN m.deltas |-> m.deltas[i].batches]))

(* scan: base rows that no delta ended, and the live delta rows            *)
Visible(m) == (m.rows \ Overlay(m).suppressed) \union Overlay(m).live

(* open_persisted_projection: every file the manifest names is there, with *)
(* the content whose checksum the manifest holds, and the chain applies.   *)
Openable(m) ==
    /\ m # NoMan
    /\ Base(m) \in DOMAIN files /\ files[Base(m)] = m.rows
    /\ \A d \in Range(m.deltas) :
        DeltaName(m, d) \in DOMAIN files /\ files[DeltaName(m, d)] = d.batches
    /\ Overlay(m).ok

(* planner_columnar_projections: the projections a query may read          *)
Eligible(m) ==
    /\ m # NoMan
    /\ \/ m.mode = "Snapshot" /\ m.applied = Current
       \/ /\ m.mode = "Incremental" /\ stream.on /\ m.sgen = stream.gen
          /\ m.applied = Current

(* capture_columnar_source, capture_incremental_columnar_source            *)
CanCapture(mode) == published = Current /\ (mode = "Incremental" => stream.on)
Captured(i, g, mode) ==
    [id |-> i, gen |-> g, mode |-> mode, sgen |-> IF mode = "Incremental" THEN stream.gen ELSE 0,
     applied |-> Current, rows |-> Rows, deltas |-> <<>>]

(* prepare_advance: n batches from the applied frontier as one delta       *)
Advanced(m, n) ==
    [m EXCEPT !.applied = @ + n,
              !.deltas = Append(@, [after |-> m.applied + n,
                                    batches |-> [k \in 1..n |-> Batch(m.applied + k)]])]

(* As if compaction kept the base rows that a delta ended.                 *)
Compacted_KeepsEnded(m) ==
    [m EXCEPT !.gen = @ + 1, !.rows = m.rows \union Overlay(m).live, !.deltas = <<>>]

(* prepare_compaction: what the projection shows becomes the next base     *)
Compacted(m) == [m EXCEPT !.gen = @ + 1, !.rows = Visible(m), !.deltas = <<>>]

-------------------------------------------------------------------------------
(* How a step of a call ends: done; error, after which the call returns;   *)
(* or crash, in the middle of the step.                                    *)

Idle == phase = "open" /\ op = NoOp
Mutable == Idle /\ status = "ok"        \* ensure_mutation_available

MayWork == calls + faults + stops < MaxWork
MayFail == MayWork /\ faults < MaxFaults
MayStop == MayWork /\ stops < MaxStops
Called == Mutable /\ MayWork /\ calls' = calls + 1

Ends == {"done"} \union (IF MayStop THEN {"crash"} ELSE {})
                 \union (IF MayFail THEN {"error"} ELSE {})

Counted(r) ==
    /\ faults' = IF r = "error" THEN faults + 1 ELSE faults
    /\ stops' = IF r = "crash" THEN stops + 1 ELSE stops

(* What is in memory after a step that ended with r: the registry, the     *)
(* status and the call still in progress; nothing after a crash.           *)
Memory(r, registry, st, next) ==
    /\ phase' = IF r = "crash" THEN "down" ELSE "open"
    /\ pin' = IF r = "crash" THEN NoPin ELSE pin
    /\ reg' = IF r = "crash" THEN NoReg ELSE registry
    /\ status' = IF r = "crash" THEN "ok" ELSE st
    /\ op' = IF r = "crash" THEN NoOp ELSE next

(* ProjectionCatalog::publish of c: the catalog in memory has changed      *)
(* before; an error may come before the rename or after it.                *)
CatalogPublish(c, r) ==
    /\ cat' = IF r = "crash" THEN NoCat ELSE c
    /\ mark' = IF r = "done" THEN c.next ELSE mark
    /\ disk' \in CASE r = "done" -> {<<c>>}
                   [] r = "crash" -> {Append(disk, c)}
                   [] r = "error" -> {disk, Append(disk, c)}

CatalogKept == UNCHANGED <<cat, disk, mark>>
MemoryKept(r) == /\ cat' = IF r = "crash" THEN NoCat ELSE cat
                 /\ UNCHANGED <<disk, mark>>

(* The status after a step of a call failed: a build requires recovery.    *)
After(r) == IF r = "error" /\ op.call = "build" THEN "recovery" ELSE status

Calling(call, at, l, m) == [call |-> call, at |-> at, loc |-> l, new |-> m]
At(step) == phase = "open" /\ op # NoOp /\ op.at = step
Step(r, next) == IF r = "done" THEN [op EXCEPT !.at = next] ELSE NoOp

Init ==
    /\ phase = "open" /\ tbl = <<{<<k, 0>> : k \in 1..2}>> /\ published = 0
    /\ stream = [on |-> FALSE, gen |-> 0, earliest |-> 0] /\ pin = NoPin
    /\ cat = NoCat /\ disk = <<NoCat>> /\ mark = 1
    /\ man = [l \in Locs |-> <<NoMan>>] /\ files = [n \in {} |-> {}]
    /\ reg = NoReg /\ status = "ok" /\ op = NoOp /\ calls = 0 /\ faults = 0 /\ stops = 0
    /\ acked = {} /\ parted = {}

-------------------------------------------------------------------------------
(* The table and its change stream.                                        *)

projectionVars == <<cat, diskVars, reg, status, op, historyVars, boundVars>>

(* A transaction is applied to the storage and its batch finalized; the    *)
(* published snapshot follows when the whole transaction is complete.      *)
Commit ==
    /\ Idle /\ Current < MaxVersion
    /\ \E k \in HotKeys :
        LET had == {x \in Rows : x[1] = k}
            now == <<k, Current + 1>> IN
        \/ tbl' = Append(tbl, (Rows \ had) \union {now})
        \/ had # {} /\ tbl' = Append(tbl, Rows \ had)
    /\ UNCHANGED <<phase, published, stream, pin, projectionVars>>

Publish ==
    /\ Idle /\ published < Current /\ published' = Current
    /\ UNCHANGED <<phase, tbl, stream, pin, projectionVars>>

(* enable_change_stream, disable_change_stream; the last generation the    *)
(* bound allows stays enabled                                              *)
EnableStream ==
    /\ Idle /\ ~stream.on /\ stream.gen < MaxStreamGen
    /\ stream' = [on |-> TRUE, gen |-> stream.gen + 1, earliest |-> Current]
    /\ UNCHANGED <<phase, tbl, published, pin, projectionVars>>

DisableStream ==
    /\ Idle /\ stream.on /\ stream.gen < MaxStreamGen
    /\ stream' = [stream EXCEPT !.on = FALSE]
    /\ UNCHANGED <<phase, tbl, published, pin, projectionVars>>

(* pin_change_stream; dropping the pin releases it                         *)
Pin ==
    /\ Idle /\ MayWork /\ calls' = calls + 1 /\ stream.on /\ ~pin.on
    /\ \E v \in stream.earliest..Current : pin' = [on |-> TRUE, gen |-> stream.gen, at |-> v]
    /\ UNCHANGED <<phase, sourceVars, cat, diskVars, reg, status, op, historyVars, faults, stops>>

Unpin ==
    /\ Idle /\ pin.on /\ pin' = NoPin
    /\ UNCHANGED <<phase, sourceVars, projectionVars>>

(* assess_change_stream_retention: the frontiers that must stay readable   *)
Required ==
    {m.applied : m \in {x \in {reg[i].proj : i \in DOMAIN reg} :
                            x # NoMan /\ x.mode = "Incremental" /\ x.sgen = stream.gen}}
    \union (IF pin.on /\ pin.gen = stream.gen THEN {pin.at} ELSE {})

(* As if reclaiming did not ask whether the catalog needs recovery.        *)
GcChangeStream_IgnoresRecovery ==
    /\ Idle /\ stream.on
    /\ \A i \in DOMAIN reg : reg[i].proj # NoMan
    /\ Required # {} /\ \A v \in Required : v \in stream.earliest..Current
    /\ Min(Required) > stream.earliest
    /\ stream' = [stream EXCEPT !.earliest = Min(Required)]
    /\ UNCHANGED <<phase, tbl, published, pin, projectionVars>>

(* gc_change_stream: refused while the catalog is not available or a       *)
(* managed projection is not, or when nothing bounds what may be needed.   *)
GcChangeStream ==
    /\ Mutable /\ stream.on
    /\ \A i \in DOMAIN reg : reg[i].proj # NoMan
    /\ Required # {} /\ \A v \in Required : v \in stream.earliest..Current
    /\ Min(Required) > stream.earliest
    /\ stream' = [stream EXCEPT !.earliest = Min(Required)]
    /\ UNCHANGED <<phase, tbl, published, pin, projectionVars>>

-------------------------------------------------------------------------------
(* The calls on projections.                                               *)

(* As if a build did not look for a manifest left at its location.         *)
BeginBuild_IgnoresManifest ==
    /\ Called /\ cat.pending = NoBuild /\ cat.next <= MaxId
    /\ \E l \in Locs, mode \in Modes, r \in Ends :
        LET build == [id |-> cat.next, loc |-> l, gen |-> 1, mode |-> mode] IN
        /\ l \notin {cat.entries[i].loc : i \in DOMAIN cat.entries}
        /\ CanCapture(mode)
        /\ CatalogPublish([cat EXCEPT !.next = @ + 1, !.pending = build], r)
        /\ Memory(r, reg, IF r = "error" THEN "recovery" ELSE "ok",
                  IF r = "done" THEN Calling("build", "segment", l, Captured(cat.next, 1, mode))
                  ELSE NoOp)
        /\ Counted(r)
    /\ UNCHANGED <<sourceVars, man, files, historyVars>>

(* build_columnar_projection, build_incremental_columnar_projection: the   *)
(* durable intent, after which the base is written and synced.             *)
BeginBuild ==
    /\ Called /\ cat.pending = NoBuild /\ cat.next <= MaxId
    /\ \E l \in Locs, mode \in Modes, r \in Ends :
        LET build == [id |-> cat.next, loc |-> l, gen |-> 1, mode |-> mode] IN
        /\ l \notin {cat.entries[i].loc : i \in DOMAIN cat.entries}
        /\ Last(man[l]) = NoMan /\ CanCapture(mode)
        /\ CatalogPublish([cat EXCEPT !.next = @ + 1, !.pending = build], r)
        /\ Memory(r, reg, IF r = "error" THEN "recovery" ELSE "ok",
                  IF r = "done" THEN Calling("build", "segment", l, Captured(cat.next, 1, mode))
                  ELSE NoOp)
        /\ Counted(r)
    /\ UNCHANGED <<sourceVars, man, files, historyVars>>

(* abort_unpublished_columnar_build when the base could not be written     *)
AbortBuild ==
    /\ At("segment") /\ op.call = "build" /\ MayFail
    /\ \E r \in Ends :
        /\ CatalogPublish([cat EXCEPT !.pending = NoBuild], r)
        /\ Memory(r, reg, After(r), NoOp)
        /\ faults' = faults + 1 /\ stops' = IF r = "crash" THEN stops + 1 ELSE stops
    /\ UNCHANGED <<sourceVars, man, files, historyVars, calls>>

(* advance_columnar_projection: at most n batches the stream still holds   *)
Advance ==
    /\ Called /\ stream.on
    /\ \E i \in DOMAIN reg, n \in 1..MaxVersion :
        LET m == reg[i].proj IN
        /\ m # NoMan /\ m.mode = "Incremental" /\ m.sgen = stream.gen
        /\ stream.earliest <= m.applied /\ m.applied + n <= Current
        /\ Overlay(Advanced(m, n)).ok
        /\ op' = Calling("advance", "segment", reg[i].loc, Advanced(m, n))
    /\ UNCHANGED <<phase, sourceVars, pin, cat, diskVars, reg, status, historyVars, faults, stops>>

(* compact_columnar_projection: no source read, the frontier stays         *)
Compact ==
    /\ Called /\ stream.on
    /\ \E i \in DOMAIN reg :
        LET m == reg[i].proj IN
        /\ m # NoMan /\ m.mode = "Incremental" /\ m.deltas # <<>>
        /\ m.sgen = stream.gen /\ m.gen < MaxGen
        /\ op' = Calling("compact", "segment", reg[i].loc, Compacted(m))
    /\ UNCHANGED <<phase, sourceVars, pin, cat, diskVars, reg, status, historyVars, faults, stops>>

(* As if a refresh wrote its base under the generation it replaces.        *)
Refresh_SameGeneration ==
    /\ Called
    /\ \E i \in DOMAIN reg :
        LET m == reg[i].proj IN
        /\ m # NoMan /\ m.gen < MaxGen /\ CanCapture(m.mode)
        /\ op' = Calling("refresh", "segment", reg[i].loc, Captured(i, m.gen, m.mode))
    /\ UNCHANGED <<phase, sourceVars, pin, cat, diskVars, reg, status, historyVars, faults, stops>>

(* refresh_columnar_projection: the next generation, from the source       *)
Refresh ==
    /\ Called
    /\ \E i \in DOMAIN reg :
        LET m == reg[i].proj IN
        /\ m # NoMan /\ m.gen < MaxGen /\ CanCapture(m.mode)
        /\ op' = Calling("refresh", "segment", reg[i].loc, Captured(i, m.gen + 1, m.mode))
    /\ UNCHANGED <<phase, sourceVars, pin, cat, diskVars, reg, status, historyVars, faults, stops>>

(* publish: the segment's rename and directory sync, which also settles    *)
(* what an earlier call left unsynced there.  When they fail a base is     *)
(* taken away again, a delta may stay.                                     *)
IsDelta == op.call = "advance"
NewFile == IF IsDelta THEN DeltaName(op.new, Last(op.new.deltas)) ELSE Base(op.new)
NewData == IF IsDelta THEN Last(op.new.deltas).batches ELSE op.new.rows

PublishSegment ==
    /\ At("segment")
    /\ \E r \in Ends :
        /\ files' \in CASE r = "error" /\ ~IsDelta -> {files, Without(files, {NewFile})}
                        [] r = "error" /\ IsDelta -> {files, WithFile(NewFile, NewData)}
                        [] OTHER -> {WithFile(NewFile, NewData)}
        /\ man' = IF r = "done" THEN [man EXCEPT ![op.loc] = <<Last(@)>>] ELSE man
        /\ Memory(r, reg, After(r), Step(r, "manifest")) /\ MemoryKept(r) /\ Counted(r)
    /\ UNCHANGED <<sourceVars, historyVars, calls>>

(* publish: the rename of the manifest                                     *)
PublishManifest ==
    /\ At("manifest")
    /\ \E r \in Ends :
        /\ man' = IF r = "error" THEN man ELSE [man EXCEPT ![op.loc] = Append(@, op.new)]
        /\ files' = IF r = "error" /\ ~IsDelta THEN Without(files, {NewFile}) ELSE files
        /\ Memory(r, reg, After(r), Step(r, "sync")) /\ MemoryKept(r) /\ Counted(r)
    /\ UNCHANGED <<sourceVars, historyVars, calls>>

(* publish: the last directory sync, and reading the projection back.      *)
(* When they fail only a build requires recovery: the other calls leave    *)
(* the replaced projection in use, under the new manifest.                 *)
SyncManifest ==
    /\ At("sync")
    /\ \E r \in Ends \ {"crash"} :
        /\ \/ man' = [man EXCEPT ![op.loc] = <<Last(@)>>]
           \/ r = "error" /\ UNCHANGED man
        /\ parted' = IF r = "error" /\ op.call # "build" THEN parted \union {op.new.id} ELSE parted
        /\ Memory(r, reg, After(r), Step(r, "register")) /\ CatalogKept /\ Counted(r)
    /\ UNCHANGED <<sourceVars, files, acked, calls>>

(* ProjectionRegistry::commit_build                                        *)
CommitBuild ==
    /\ At("register") /\ op.call = "build"
    /\ \E r \in Ends :
        LET i == op.new.id
            c == [cat EXCEPT !.pending = NoBuild,
                             !.entries = WithEntry(@, i, [gen |-> op.new.gen, loc |-> op.loc])] IN
        /\ CatalogPublish(c, r) /\ Counted(r)
        /\ Memory(r, IF r = "done"
                     THEN WithEntry(reg, i, [gen |-> op.new.gen, loc |-> op.loc, proj |-> op.new])
                     ELSE reg, After(r), NoOp)
        /\ acked' = IF r = "done" THEN acked \union {i} ELSE acked
    /\ UNCHANGED <<sourceVars, man, files, parted, calls>>

(* ProjectionRegistry::replace: a new generation is recorded in the        *)
(* catalog before the registry shows it.  When that fails the catalog in   *)
(* memory has it, and the replaced projection stays in use.                *)
Replace ==
    /\ At("register") /\ op.call # "build"
    /\ LET i == op.new.id
           renewed == op.new.gen # reg[i].gen
           recordable == i \in DOMAIN cat.entries /\ cat.entries[i].gen <= op.new.gen IN
       \E r \in Ends \union {"error"} :
        /\ CASE ~renewed -> r = "done" /\ CatalogKept /\ Counted(r)
             [] renewed /\ ~recordable -> r = "error" /\ CatalogKept /\ UNCHANGED <<faults, stops>>
             [] OTHER -> /\ r \in Ends /\ Counted(r)
                         /\ CatalogPublish([cat EXCEPT !.entries[i].gen = op.new.gen], r)
        /\ Memory(r, IF r = "done" THEN [reg EXCEPT ![i].gen = op.new.gen, ![i].proj = op.new]
                     ELSE reg, status,
                  IF r = "done" /\ ~IsDelta THEN Calling("retire", "retire", op.loc, reg[i].proj)
                  ELSE NoOp)
        /\ parted' = CASE r = "error" -> parted \union {i}
                       [] r = "done" /\ renewed -> parted \ {i}
                       [] OTHER -> parted
    /\ UNCHANGED <<sourceVars, man, files, acked, calls>>

(* retire_segment: the files of the replaced generation                    *)
Retire ==
    /\ At("retire") /\ files' = Without(files, FilesOf(op.new)) /\ op' = NoOp
    /\ UNCHANGED <<phase, sourceVars, pin, cat, disk, mark, man, reg, status, historyVars, boundVars>>

(* drop_columnar_projection: out of the catalog, then out of the registry, *)
(* then its files.  When the catalog cannot be written it has forgotten    *)
(* the projection in memory and the registry has not.                      *)
Drop ==
    /\ Called
    /\ \E i \in DOMAIN reg \intersect DOMAIN cat.entries, r \in Ends :
        /\ CatalogPublish([cat EXCEPT !.entries = Without(@, {i})], r)
        /\ Memory(r, IF r = "done" THEN Without(reg, {i}) ELSE reg, status,
                  IF r = "done" /\ reg[i].proj # NoMan
                  THEN Calling("drop", "unlink", reg[i].loc, reg[i].proj) ELSE NoOp)
        /\ Counted(r) /\ acked' = acked \ {i}
    /\ UNCHANGED <<sourceVars, man, files, parted>>

(* drop_files: the manifest first, then the segments, then the directory   *)
(* sync; it may fail at each.                                              *)
DropFiles ==
    /\ At("unlink")
    /\ LET gone == [man EXCEPT ![op.loc] = Append(@, NoMan)]
           unlinked == Without(files, FilesOf(op.new)) IN
       \E r \in Ends :
        /\ CASE r = "done" -> man' = [man EXCEPT ![op.loc] = <<NoMan>>] /\ files' = unlinked
             [] r = "crash" -> man' = gone /\ files' = unlinked
             [] r = "error" -> \/ UNCHANGED <<man, files>>
                               \/ man' = gone /\ files' \in {files, unlinked}
        /\ parted' = IF r = "error" THEN parted \union {op.new.id} ELSE parted
        /\ Memory(r, reg, status, NoOp) /\ MemoryKept(r) /\ Counted(r)
    /\ UNCHANGED <<sourceVars, acked, calls>>

(* quarantine: a query failed to read the projection                       *)
Quarantine ==
    /\ Idle /\ MayFail
    /\ \E i \in DOMAIN reg :
        /\ Eligible(reg[i].proj)
        /\ reg' = [reg EXCEPT ![i].proj = NoMan]
    /\ faults' = faults + 1
    /\ UNCHANGED <<phase, sourceVars, pin, cat, diskVars, status, op, historyVars, calls, stops>>

Unsynced(l) == Len(man[l]) > 1
UnsyncedIds == {m.id : m \in UNION {Range(man[l]) : l \in {x \in Locs : Unsynced(x)}}} \ {0}

(* attach_columnar_projection of a registered location: adopt.  Attaching  *)
(* what the registry already shows changes nothing.                        *)
Attach ==
    /\ Called
    /\ \E i \in DOMAIN reg \intersect DOMAIN cat.entries, r \in Ends :
        LET m == Last(man[reg[i].loc]) IN
        /\ Openable(m) /\ m.id = i /\ m.gen >= reg[i].gen /\ m.gen >= cat.entries[i].gen
        /\ m # reg[i].proj
        /\ CatalogPublish([cat EXCEPT !.entries[i].gen = m.gen], r)
        /\ Memory(r, IF r = "done" THEN [reg EXCEPT ![i].gen = m.gen, ![i].proj = m] ELSE reg,
                  status, NoOp)
        /\ parted' = CASE r = "error" \/ (r = "done" /\ Unsynced(reg[i].loc)) -> parted \union {i}
                       [] r = "done" /\ ~Unsynced(reg[i].loc) -> parted \ {i}
                       [] OTHER -> parted
        /\ Counted(r)
    /\ UNCHANGED <<sourceVars, man, files, acked>>

-------------------------------------------------------------------------------
(* Crash and reopen.                                                       *)

(* The process ends.                                                       *)
Crash ==
    /\ phase = "open" /\ MayStop
    /\ phase' = "down" /\ pin' = NoPin /\ cat' = NoCat /\ reg' = NoReg /\ status' = "ok"
    /\ op' = NoOp /\ stops' = stops + 1
    /\ UNCHANGED <<sourceVars, diskVars, historyVars, calls, faults>>

(* With it the power: of the contents since the last sync one is left.     *)
PowerFailure ==
    /\ phase = "down" /\ (Len(disk) > 1 \/ \E l \in Locs : Unsynced(l))
    /\ \E c \in Range(disk) : disk' = <<c>>
    /\ \E ms \in [Locs -> UNION {Range(man[l]) : l \in Locs}] :
        /\ \A l \in Locs : ms[l] \in Range(man[l])
        /\ man' = [l \in Locs |-> <<ms[l]>>]
    /\ UNCHANGED <<phase, sourceVars, pin, cat, mark, files, reg, status, op, historyVars, boundVars>>

Found(l) == Last(man[l])

Matches(m, build) ==
    m.id = build.id /\ m.gen = build.gen /\ m.mode = build.mode /\ Openable(m)

(* The pending build at open: without a manifest it is cleaned up and      *)
(* aborted, with one it is completed.                                      *)
Resolved(c) ==
    LET b == c.pending IN
    IF b = NoBuild \/ Found(b.loc) = NoMan THEN [c EXCEPT !.pending = NoBuild]
    ELSE [c EXCEPT !.pending = NoBuild,
                   !.entries = WithEntry(@, b.id, [gen |-> b.gen, loc |-> b.loc])]

Resolvable(c) ==
    c.pending # NoBuild /\ Found(c.pending.loc) # NoMan => Matches(Found(c.pending.loc), c.pending)

CleanedUp(c) ==
    IF c.pending # NoBuild /\ Found(c.pending.loc) = NoMan
    THEN Without(files, {<<c.pending.id, c.pending.gen, 0>>}) ELSE files

Available(c, i) ==
    LET m == Found(c.entries[i].loc) IN
    Openable(m) /\ m.id = i /\ m.gen >= c.entries[i].gen

(* Of the entries in S those whose manifest is newer take over its         *)
(* generation.                                                             *)
CaughtUp(c, S) ==
    [c EXCEPT !.entries = [i \in DOMAIN c.entries |->
        IF i \in S /\ Available(c, i) THEN [c.entries[i] EXCEPT !.gen = Found(c.entries[i].loc).gen]
        ELSE c.entries[i]]]

(* configure_managed_projection_catalog.  It writes a marker that differs  *)
(* from the catalog anew and so syncs the catalog; it syncs no projection  *)
(* directory.  A generation that cannot be recorded is passed over.        *)
Reopen ==
    LET c == Last(disk)
        settled == Resolved(c)
        next == CaughtUp(settled, DOMAIN settled.entries) IN
    /\ phase = "down" /\ c.next >= mark /\ Resolvable(c)
    /\ \E r \in Ends \ {"crash"} :
        /\ \/ r = "done" /\ disk' = <<next>>
           \/ /\ r = "error" /\ next # settled
              /\ \E S \in SUBSET DOMAIN settled.entries :
                  disk' \in {<<CaughtUp(settled, S)>>, <<CaughtUp(settled, S), next>>}
        /\ Counted(r)
    /\ phase' = "open" /\ published' = Current /\ mark' = c.next /\ files' = CleanedUp(c)
    /\ cat' = next /\ acked' = DOMAIN next.entries
    /\ reg' = [i \in DOMAIN next.entries |->
                 [gen |-> next.entries[i].gen, loc |-> next.entries[i].loc,
                  proj |-> IF Available(next, i) THEN Found(next.entries[i].loc) ELSE NoMan]]
    /\ parted' = parted \union UnsyncedIds
    /\ UNCHANGED <<tbl, stream, pin, man, status, op, calls>>

(* An open that crashes, or cannot write the catalog with the pending      *)
(* build resolved and reports that instead of opening.                     *)
OpenStops ==
    LET c == Last(disk)
        settled == Resolved(c)
        next == CaughtUp(settled, DOMAIN settled.entries) IN
    /\ phase = "down" /\ c.next >= mark /\ Resolvable(c) /\ next # c
    /\ \E r \in Ends \ {"done"} :
        /\ r = "error" => c.pending # NoBuild
        /\ disk' \in {<<c>>, <<c, settled>>} \union (IF r = "crash" THEN {<<settled, next>>} ELSE {})
        /\ Counted(r)
    /\ files' = CleanedUp(c) /\ parted' = parted \union UnsyncedIds
    /\ UNCHANGED <<phase, sourceVars, pin, cat, mark, man, reg, status, op, acked, calls>>

(* An open that cannot read the catalog, or finds it behind its marker,    *)
(* goes on without projections (ProjectionRegistry::degraded).             *)
OpenDegraded ==
    /\ phase = "down" /\ (MayFail \/ Last(disk).next < mark)
    /\ faults' = IF Last(disk).next < mark THEN faults ELSE faults + 1
    /\ phase' = "open" /\ published' = Current /\ status' = "degraded"
    /\ UNCHANGED <<tbl, stream, pin, cat, diskVars, reg, op, historyVars, calls, stops>>

Next ==
    \/ Commit \/ Publish \/ EnableStream \/ DisableStream \/ Pin \/ Unpin \/ GcChangeStream
    \/ BeginBuild \/ AbortBuild \/ Advance \/ Compact \/ Refresh
    \/ PublishSegment \/ PublishManifest \/ SyncManifest \/ CommitBuild \/ Replace \/ Retire
    \/ Drop \/ DropFiles \/ Quarantine \/ Attach
    \/ Crash \/ PowerFailure \/ Reopen \/ OpenStops \/ OpenDegraded

Spec == Init /\ [][Next]_vars

-------------------------------------------------------------------------------
(* Properties.                                                             *)

(* The state is well formed: catalogs name locations once and identities   *)
(* below the next one, and the installed manifest is the last of those a   *)
(* crash may leave (ProjectionCatalog::validate).                          *)
TypeOK ==
    /\ phase \in {"open", "down"} /\ status \in {"ok", "recovery", "degraded"}
    /\ published \in 0..Current /\ Current \in Versions
    /\ stream.gen \in 0..MaxStreamGen /\ stream.earliest \in 0..Current
    /\ \A c \in Range(disk) \union {cat} :
        /\ c.next \in 1..(MaxId + 1)
        /\ \A i \in DOMAIN c.entries \union ({c.pending.id} \ {0}) : i < c.next
        /\ \A i, j \in DOMAIN c.entries : c.entries[i].loc = c.entries[j].loc => i = j
        /\ c.pending # NoBuild =>
            c.pending.loc \notin {c.entries[i].loc : i \in DOMAIN c.entries}
    /\ acked \union parted \subseteq Ids /\ DOMAIN reg \subseteq Ids
    /\ faults \in 0..MaxFaults /\ stops \in 0..MaxStops

(* A projection shows exactly the table as of the version it has applied,  *)
(* however it came about: built, advanced, compacted, refreshed, attached, *)
(* recovered, or kept in use by a call that failed; and so does every      *)
(* manifest a process may open.  A query reads those that have applied the *)
(* storage's current version.                                              *)
ShownExact ==
    \A m \in {reg[i].proj : i \in DOMAIN reg} \union UNION {Range(man[l]) : l \in Locs} :
        m # NoMan => Overlay(m).ok /\ Visible(m) = tbl[m.applied + 1]

(* Reclaiming never takes history that a projection needs, the projections *)
(* that come back after a crash included: every manifest that a catalog    *)
(* entry or a pending build may open with can still be advanced, unless    *)
(* the registry that bounds the reclaiming and the manifest have parted.   *)
RetentionCovers ==
    \A c \in Range(disk) :
        \A l \in {c.entries[i].loc : i \in DOMAIN c.entries}
                    \union (IF c.pending = NoBuild THEN {} ELSE {c.pending.loc}) :
            \A m \in Range(man[l]) :
                m # NoMan /\ stream.on /\ m.mode = "Incremental" /\ m.sgen = stream.gen
                    => stream.earliest <= m.applied \/ m.id \in parted

(* A projection whose build was reported, and that nobody asked to drop,   *)
(* stays in the catalog and opens after a crash at any point: every        *)
(* manifest that may be found names only files that exist with the right   *)
(* content, and no generation is behind the catalog's.  Its manifest fails *)
(* that only after a call that failed behind the manifest's rename, or an  *)
(* open of an unsynced one, and until a generation is written in full.     *)
AcknowledgedOpens ==
    \A i \in acked, c \in Range(disk) :
        /\ i \in DOMAIN c.entries
        /\ \A m \in Range(man[c.entries[i].loc]) :
            \/ Openable(m) /\ m.id = i /\ m.gen >= c.entries[i].gen
            \/ i \in parted

(* A build interrupted anywhere never keeps the database from opening: the *)
(* pending intent finds no manifest, or exactly its own, or that of an     *)
(* earlier projection whose removal failed or was not synced when its      *)
(* location was taken again; and the catalog is never behind its marker.   *)
PendingResolves ==
    \A c \in Range(disk) :
        /\ c.next >= mark
        /\ c.pending # NoBuild =>
            \A m \in Range(man[c.pending.loc]) :
                \/ m = NoMan \/ Matches(m, c.pending)
                \/ m.id < c.pending.id /\ m.id \in parted
===============================================================================
