----------------------------- MODULE Carriers ------------------------------
(***************************************************************************)
(* Sessions that end and resume: the JSON snapshot of                      *)
(* gat/state_snapshot.py, the OpenUSD carrier of gat/adapters/openusd.py   *)
(* and the load and export calls of gat/session.py, over files that are    *)
(* written in place and may be left half-written by a crash.               *)
(*                                                                         *)
(* A carrier's integrity digests are modelled by what they protect: a file *)
(* is either exactly what was written or does not load.  A signature is    *)
(* the key that made it.                                                   *)
(***************************************************************************)
EXTENDS Session, FiniteSets

CONSTANTS
  Paths,          \* files a session writes and reads
  Keys,           \* signing keys
  KeyId(_),       \* the identifier a key is published under
  Unsigned,       \* the signer of a carrier without a signature
  EmbeddedLimit,  \* embedded texts a reader accepts (max_json_chars)
  Recompiled(_),  \* a world's module compiled again, its raw belief pushed
                  \* forward completely: World.compile(module).with_belief
  TraceBound      \* bound of the model: longest trace a resumable session has

ASSUME CarrierAssumption == Unsigned \notin Keys

(* A world that was compiled and not run on is the complete push-forward   *)
(* of its belief (World.compile, executor.py:79-95).                       *)
ASSUME CompileAssumption == \A w \in GenesisWorlds : Recompiled(w) = w

VARIABLES
  disk,      \* the content of each path
  pending,   \* the write in progress
  verified   \* self.carrier_signature_verified

carrierVars == <<world, ledger, trace, reply, disk, pending, verified>>

NoFile == [format |-> "none"]
Torn   == [format |-> "torn"]
Idle   == [path |-> "none"]

Carrier(format, version, w, tr, led, signer) ==
  [format |-> format, version |-> version, world |-> w, trace |-> tr,
   ledger |-> led, signer |-> signer]

NoLedger == <<>>

Complete(c) == c.format \in {"snapshot", "openusd", "ledger"}

-----------------------------------------------------------------------------
(* Reading a carrier *)

KeyIds == {KeyId(k) : k \in Keys}

(* Trust is caller supplied: some identifiers resolved to a key.           *)
TrustMaps == UNION {[ids -> Keys] : ids \in SUBSET KeyIds}

SignatureVerified(c, trusted) ==
  /\ c.signer # Unsigned
  /\ KeyId(c.signer) \in DOMAIN trusted
  /\ trusted[KeyId(c.signer)] = c.signer

(* _read_and_verify_signature does not raise.                              *)
SignatureAccepted(c, trusted, required) ==
  IF c.signer # Unsigned /\ KeyId(c.signer) \in DOMAIN trusted
    THEN trusted[KeyId(c.signer)] = c.signer
    ELSE ~ required

(* reconstruct_snapshot does not raise: the module is compiled again, the  *)
(* raw belief that was captured is pushed forward completely, and the      *)
(* world that gives passes its invariants and has the digest recorded for  *)
(* the world captured.                                                     *)
SnapshotReads(c) ==
  /\ Passes(Recompiled(c.world))
  /\ Recompiled(c.world) = c.world

(* read_openusd does not raise.                                            *)
OpenUsdReads(c, trusted, required) ==
  /\ c.format = "openusd"
  /\ Len(c.trace) + Len(c.ledger) <= EmbeddedLimit
  /\ c.ledger # NoLedger => ValidLedger(c.ledger)
  /\ SignatureAccepted(c, trusted, required)
  /\ SnapshotReads(c)
  /\ c.ledger # NoLedger => LedgerHead(c.ledger).result = c.world

-----------------------------------------------------------------------------
(* Older releases left carriers without a ledger: version 1 unsigned,      *)
(* version 2 signed or not.                                                *)
LegacyCarriers ==
  {Carrier("openusd", v, w, <<TraceEvent("compile", "PASS", w)>>, NoLedger, s) :
     v \in 1..2, w \in {g \in GenesisWorlds : Passes(g)}, s \in Keys \cup {Unsigned}}

Start ==
  /\ Init
  /\ disk \in [Paths -> {NoFile} \cup {c \in LegacyCarriers :
                                        c.version = 1 => c.signer = Unsigned}]
  /\ Cardinality({p \in Paths : disk[p] # NoFile}) <= 1
  /\ pending = Idle
  /\ verified = FALSE

(* The session runs and records as in module Session.                      *)
Work ==
  /\ pending = Idle
  /\ Next
  /\ UNCHANGED <<disk, pending, verified>>

-----------------------------------------------------------------------------
(* Writing *)

(* The file is opened for writing, and so emptied, before it is written.   *)
BeginWrite(path, content, origin) ==
  /\ disk' = [disk EXCEPT ![path] = Torn]
  /\ pending' = [path |-> path, content |-> content, origin |-> origin]

(* export_snapshot: capture_snapshot refuses a world that fails.           *)
ExportSnapshot(path) ==
  /\ pending = Idle /\ Len(trace) < TraceBound
  /\ Passes(world)
  /\ BeginWrite(path, Carrier("snapshot", 1, world, trace, NoLedger, Unsigned), NoFile)
  /\ UNCHANGED <<world, ledger, trace, reply, verified>>

(* Slip: a failing world is written.                                       *)
OpenUsdWritesUnverified(w, led) == ValidLedger(led) /\ LedgerHead(led).result = w

(* write_openusd also refuses a ledger that is invalid or about another    *)
(* world; the signer, if any, signs snapshot and ledger.                   *)
OpenUsdWrites(w, led) ==
  Passes(w) /\ ValidLedger(led) /\ LedgerHead(led).result = w

ExportOpenUsd(path, signer) ==
  /\ pending = Idle /\ Len(trace) < TraceBound
  /\ OpenUsdWrites(world, ledger)
  /\ BeginWrite(path, Carrier("openusd", 3, world, trace, ledger, signer), NoFile)
  /\ UNCHANGED <<world, ledger, trace, reply, verified>>

(* export_ledger: write_ledger validates the chain.  The world beside it   *)
(* is not in the file: it is what the session held.                        *)
ExportLedger(path) ==
  /\ pending = Idle /\ Len(trace) < TraceBound
  /\ ValidLedger(ledger)
  /\ BeginWrite(path, Carrier("ledger", 1, world, <<>>, ledger, Unsigned), NoFile)
  /\ UNCHANGED <<world, ledger, trace, reply, verified>>

(* export_usd, export_ifc and export_json write files no session resumes   *)
(* from: what they leave is a trace entry.                                 *)
ExportView ==
  /\ pending = Idle /\ Len(trace) < TraceBound
  /\ trace' = Append(trace, TraceEvent("export", "-", world))
  /\ UNCHANGED <<world, ledger, reply, disk, pending, verified>>

(* migrate_openusd, as a call of its own: no session is involved.          *)
Migrate(source, path, signer, trusted, required) ==
  LET c   == disk[source]
      led == IF c.ledger # NoLedger THEN c.ledger ELSE <<GenesisEvent(c.world)>>
  IN  /\ pending = Idle /\ source # path /\ Complete(c)
      /\ OpenUsdReads(c, trusted, required)
      /\ c.signer # Unsigned =>
           SignatureVerified(c, trusted) /\ signer # Unsigned
      /\ OpenUsdWrites(c.world, led)
      /\ BeginWrite(path, Carrier("openusd", 3, c.world, c.trace, led, signer), c)
      /\ UNCHANGED <<world, ledger, trace, reply, verified>>

(* The write completes; a session's export then leaves a trace entry.      *)
FinishWrite ==
  /\ pending # Idle
  /\ disk' = [disk EXCEPT ![pending.path] = pending.content]
  /\ pending' = Idle
  /\ trace' = IF pending.origin = NoFile
                THEN Append(trace, TraceEvent("export", "-", world)) ELSE trace
  /\ UNCHANGED <<world, ledger, reply, verified>>

(* The write fails (a full disk): the file is left as it is, the session   *)
(* lives on.                                                               *)
FailWrite ==
  /\ pending # Idle
  /\ pending' = Idle
  /\ UNCHANGED <<world, ledger, trace, reply, disk, verified>>

(* The process dies, between calls or in the middle of a write, and a new  *)
(* one compiles the model from its source again.                           *)
Restart ==
  /\ pending' = Idle
  /\ \E w \in GenesisWorlds :
       /\ world' = w
       /\ ledger' = <<GenesisEvent(w)>>
       /\ trace' = <<TraceEvent("compile", Verdict(w), w)>>
  /\ reply' = Reply("open", "opened")
  /\ verified' = FALSE
  /\ UNCHANGED disk

-----------------------------------------------------------------------------
(* Resuming *)

(* Slip: the resumed session forgets the trace it resumes.                 *)
ResumeWithoutTrace(c, led, isVerified) ==
  /\ world' = c.world
  /\ ledger' = led
  /\ trace' = <<TraceEvent("resume", "PASS", c.world)>>
  /\ reply' = Reply("open", "opened")
  /\ verified' = isVerified
  /\ UNCHANGED <<disk, pending>>

Resume(c, led, isVerified) ==
  /\ world' = c.world
  /\ ledger' = led
  /\ trace' = Append(c.trace, TraceEvent("resume", "PASS", c.world))
  /\ reply' = Reply("open", "opened")
  /\ verified' = isVerified
  /\ UNCHANGED <<disk, pending>>

(* load_snapshot: the trace continues, the ledger starts anew.             *)
LoadSnapshot(path) ==
  LET c == disk[path]
  IN  /\ pending = Idle /\ c.format = "snapshot" /\ Len(c.trace) < TraceBound
      /\ SnapshotReads(c)
      /\ Resume(c, <<GenesisEvent(c.world)>>, FALSE)

(* load_openusd: trace and ledger continue; a legacy carrier has no ledger *)
(* to continue.                                                            *)
LoadOpenUsd(path, trusted, required) ==
  LET c == disk[path]
  IN  /\ pending = Idle /\ Complete(c) /\ Len(c.trace) < TraceBound
      /\ OpenUsdReads(c, trusted, required)
      /\ Resume(c, IF c.ledger # NoLedger THEN c.ledger ELSE <<GenesisEvent(c.world)>>,
                SignatureVerified(c, trusted))

Step ==
  \/ Work
  \/ \E path \in Paths : ExportSnapshot(path) \/ LoadSnapshot(path) \/ ExportLedger(path)
  \/ ExportView
  \/ \E path \in Paths, signer \in Keys \cup {Unsigned} : ExportOpenUsd(path, signer)
  \/ \E path \in Paths, trusted \in TrustMaps, required \in BOOLEAN :
       \/ LoadOpenUsd(path, trusted, required)
       \/ \E source \in Paths, signer \in Keys \cup {Unsigned} :
            Migrate(source, path, signer, trusted, required)
  \/ FinishWrite
  \/ FailWrite
  \/ Restart

CarrierSpec == Start /\ [][Step]_carrierVars

-----------------------------------------------------------------------------
(* Properties *)

(* The incremental steps that led to the world of a carrier left it as the *)
(* complete push-forward computes it, the signs of its zeros included.     *)
Recompiles(c) == Recompiled(c.world) = c.world

(* A trace tells of an operation that was committed.                       *)
RunOn(tr) == \E i \in 1..Len(tr) : tr[i].stage \in {"observe", "transform"}

(* What a session or a migration wrote to its end can be read back, by a   *)
(* reader that asks for no signature and by one that requires the          *)
(* signature of its signer: the checks made while writing imply those made *)
(* while reading.  Two things alone can stop the reader: operations that   *)
(* were committed on the way may have led to a world its own push-forward  *)
(* does not reproduce, and a long OpenUSD carrier may exceed the budget.   *)
(* Rejections, causal records, exports, migrations and resumes never do.   *)
WrittenCarriersLoad ==
  \A path \in Paths : LET c == disk[path] IN
    /\ (c.format = "snapshot" /\ (RunOn(c.trace) => Recompiles(c))) =>
         SnapshotReads(c)
    /\ c.format = "ledger" => ValidLedger(c.ledger)
    /\ (c.format = "openusd" /\ (RunOn(c.trace) => Recompiles(c))
          /\ Len(c.trace) + Len(c.ledger) <= EmbeddedLimit) =>
         /\ OpenUsdReads(c, <<>>, FALSE)
         /\ c.signer # Unsigned =>
              OpenUsdReads(c, [id \in {KeyId(c.signer)} |-> c.signer], TRUE)

(* A ledger that was written to its end, as a file or embedded in a        *)
(* carrier, replays to the world of its session, however often that        *)
(* session was exported, migrated and resumed on the way.                  *)
WrittenLedgersReplay ==
  \A path \in Paths : LET c == disk[path] IN
    (c.format \in {"openusd", "ledger"} /\ c.ledger # NoLedger) =>
      ReplayLedger(c.ledger[1].result, c.ledger) = [ok |-> TRUE, world |-> c.world]

(* The trace entries that tell of events.                                  *)
IsTelling(entry) == entry.stage \notin {"compile", "export", "resume"}

(* The events of a ledger after its genesis are told, in order, by the     *)
(* last telling entries of a trace: at[i] is the entry for event i.        *)
SuffixTells(tr, led) ==
  \E at \in [2..Len(led) -> 1..Len(tr)] :
    /\ \A i \in DOMAIN at : Tells(tr[at[i]], led[i])
    /\ \A i, j \in DOMAIN at : i < j => at[i] < at[j]
    /\ \A k \in 1..Len(tr) :
         IsTelling(tr[k]) => \/ \E i \in DOMAIN at : at[i] = k
                            \/ \A i \in DOMAIN at : k < at[i]

(* Across exports, crashes and restarts, everything in the ledger after    *)
(* its genesis is told, in order, by the last such entries of the trace.   *)
TraceSuffixTellsLedger == SuffixTells(trace, ledger)

(* "Write restartable state plus a disposable derived OpenUSD view."       *)
(* (session.py:387): a carrier that export_openusd wrote to its end can be *)
(* loaded with the default limits of the reader.                           *)
ExportsAreRestartable ==
  \A path \in Paths : LET c == disk[path] IN
    (c.format = "openusd" /\ c.version = 3) => OpenUsdReads(c, <<>>, FALSE)
=============================================================================
