--------------------------- MODULE CarriersProofs ---------------------------
(***************************************************************************)
(* What survives exports, migrations, crashes and restarts, for any        *)
(* executor, any files, keys and trust, and however long the histories.    *)
(*                                                                         *)
(* The inductive invariant says of the session, of every complete file and *)
(* of the write in progress that their ledgers are sound and told by their *)
(* traces; a torn file says nothing and is never read.                     *)
(***************************************************************************)
EXTENDS Carriers, SessionProofs

CarrierEntries == [stage: Stages \cup {"export", "resume"},
                   verify: {"PASS", "FAIL", "-"}, digest: Worlds]

(* A ledger that can be read back, replays, and describes the world w.     *)
SoundLedger(led, w) ==
  /\ led \in Seq(Events) /\ ValidLedger(led)
  /\ led[1] = GenesisEvent(led[1].result)
  /\ \A i \in 2..Len(led) : ReplaysFrom(led[i-1].result, led[i])
  /\ LedgerHead(led).result = w

(* Nothing was committed on the way to the world w, or it is what its      *)
(* complete push-forward gives.                                            *)
Reproduced(tr, w) == RunOn(tr) \/ Recompiled(w) = w

(* A carrier that was written to its end.                                  *)
SoundCarrier(c) ==
  /\ Complete(c)
  /\ c.world \in Worlds
  /\ c.trace \in Seq(CarrierEntries)
  /\ c.format # "ledger" => Passes(c.world) /\ Reproduced(c.trace, c.world)
  /\ c.format = "ledger" => c.ledger # NoLedger
  /\ c.ledger # NoLedger => SoundLedger(c.ledger, c.world)
  /\ (c.ledger # NoLedger /\ c.format # "ledger") => SuffixTells(c.trace, c.ledger)

SessionSound ==
  /\ world \in Worlds
  /\ trace \in Seq(CarrierEntries)
  /\ SoundLedger(ledger, world)
  /\ SuffixTells(trace, ledger)
  /\ Reproduced(trace, world)

DiskSound == \A path \in Paths : disk[path] \in {NoFile, Torn} \/ SoundCarrier(disk[path])

PendingSound ==
  pending # Idle => pending.path \in Paths /\ SoundCarrier(pending.content)

CarriersSound ==
  /\ SessionSound
  /\ disk \in [Paths -> {disk[path] : path \in Paths}] /\ DiskSound
  /\ PendingSound

-----------------------------------------------------------------------------
(* Ledgers *)

(* A ledger of one genesis event is sound.                                 *)
LEMMA GenesisSound ==
  ASSUME NEW w \in Worlds
  PROVE  SoundLedger(<<GenesisEvent(w)>>, w)
<1> DEFINE led == <<GenesisEvent(w)>>
<1>1. led \in Seq(Events) /\ Len(led) = 1 /\ led[1] = GenesisEvent(w)
  BY EventTypes
<1>2. GenesisEvent(w).result = w
  BY DEF GenesisEvent, Event
<1>3. ValidLedger(led)
  BY ReadableGenesis
<1>4. SoundLedger(led, w)
  <2> HIDE DEF led
  <2> QED BY <1>1, <1>2, <1>3 DEF SoundLedger, LedgerHead
<1> QED BY <1>4

(* What a session records keeps its ledger sound.                          *)
LEMMA AppendSound ==
  ASSUME SoundLedger(ledger, world), NEW e \in Events, NEW entry, Appends(e, entry)
  PROVE  SoundLedger(ledger', world')
<1>1. /\ ledger \in Seq(Events) /\ ledger' = Append(ledger, e)
      /\ Len(ledger) \in Nat \ {0}
  BY LimitAssumption DEF SoundLedger, Appends, ValidLedger
<1>2. /\ ledger' \in Seq(Events) /\ Len(ledger') = Len(ledger) + 1
      /\ \A i \in 1..Len(ledger) : ledger'[i] = ledger[i]
      /\ ledger'[Len(ledger) + 1] = e
  BY <1>1, AppendFacts
<1>3. ValidLedger(ledger')
  BY ReadableAppend DEF SoundLedger
<1>4. ledger'[1] = GenesisEvent(ledger'[1].result)
  BY <1>1, <1>2 DEF SoundLedger
<1>5. ASSUME NEW i \in 2..Len(ledger')
      PROVE  ReplaysFrom(ledger'[i-1].result, ledger'[i])
  <2>1. CASE i \in 2..Len(ledger)
    <3>1. ledger'[i] = ledger[i] /\ ledger'[i-1] = ledger[i-1]
      BY <1>2, <2>1
    <3> QED BY <2>1, <3>1 DEF SoundLedger
  <2>2. CASE i = Len(ledger) + 1
    <3>1. ledger'[i] = e /\ ledger'[i-1] = ledger[Len(ledger)]
      BY <1>1, <1>2, <2>2
    <3>2. ledger[Len(ledger)].result = world /\ ReplaysFrom(world, e)
      BY DEF Appends, LedgerHead
    <3> QED BY <3>1, <3>2
  <2> QED BY <1>1, <1>2, <2>1, <2>2
<1>6. LedgerHead(ledger').result = world'
  BY <1>1, <1>2 DEF Appends, LedgerHead
<1> QED BY <1>2, <1>3, <1>4, <1>5, <1>6 DEF SoundLedger

-----------------------------------------------------------------------------
(* Traces *)

(* A ledger with nothing after its genesis is told by any trace.           *)
LEMMA GenesisTold ==
  ASSUME NEW tr, NEW led, Len(led) = 1
  PROVE  SuffixTells(tr, led)
<1> DEFINE at == [i \in 2..1 |-> i]
<1>1. at \in [2..Len(led) -> 1..Len(tr)] /\ DOMAIN at = {}
  OBVIOUS
<1> HIDE DEF at
<1> QED BY <1>1 DEF SuffixTells

(* An entry about no event leaves the events told.                         *)
LEMMA QuietEntry ==
  ASSUME NEW S, NEW tr \in Seq(S), NEW led, SuffixTells(tr, led),
         NEW entry \in S, ~ IsTelling(entry)
  PROVE  SuffixTells(Append(tr, entry), led)
<1> DEFINE n == Len(tr)
<1>1. /\ n \in Nat /\ Len(Append(tr, entry)) = n + 1
      /\ \A k \in 1..n : Append(tr, entry)[k] = tr[k]
      /\ Append(tr, entry)[n + 1] = entry
  BY AppendFacts
<1>2. PICK at \in [2..Len(led) -> 1..n] :
        /\ \A i \in DOMAIN at : Tells(tr[at[i]], led[i])
        /\ \A i, j \in DOMAIN at : i < j => at[i] < at[j]
        /\ \A k \in 1..n :
             IsTelling(tr[k]) => \/ \E i \in DOMAIN at : at[i] = k
                                \/ \A i \in DOMAIN at : k < at[i]
  BY DEF SuffixTells
<1>3. at \in [2..Len(led) -> 1..(n + 1)] /\ \A i \in DOMAIN at : at[i] \in 1..n
  BY <1>1, <1>2
<1>4. \A i \in DOMAIN at : Tells(Append(tr, entry)[at[i]], led[i])
  BY <1>1, <1>2, <1>3
<1>5. ASSUME NEW k \in 1..(n + 1), IsTelling(Append(tr, entry)[k])
      PROVE  \/ \E i \in DOMAIN at : at[i] = k
             \/ \A i \in DOMAIN at : k < at[i]
  <2>1. k \in 1..n /\ Append(tr, entry)[k] = tr[k]
    BY <1>1, <1>5
  <2> QED BY <1>2, <1>5, <2>1
<1> QED BY <1>1, <1>2, <1>3, <1>4, <1>5 DEF SuffixTells

(* The entry that tells of an appended event tells it last.                *)
LEMMA ToldEntry ==
  ASSUME NEW S, NEW tr \in Seq(S), NEW T, NEW led \in Seq(T), Len(led) # 0,
         SuffixTells(tr, led), NEW entry \in S, NEW e \in T, Tells(entry, e)
  PROVE  SuffixTells(Append(tr, entry), Append(led, e))
<1> DEFINE n == Len(tr)
           m == Len(led)
           tr2 == Append(tr, entry)
           led2 == Append(led, e)
<1>1. /\ n \in Nat /\ Len(tr2) = n + 1
      /\ \A k \in 1..n : tr2[k] = tr[k]
      /\ tr2[n + 1] = entry
  BY AppendFacts
<1>2. /\ m \in Nat \ {0} /\ Len(led2) = m + 1
      /\ \A k \in 1..m : led2[k] = led[k]
      /\ led2[m + 1] = e
  BY AppendFacts
<1>3. PICK at \in [2..m -> 1..n] :
        /\ \A i \in DOMAIN at : Tells(tr[at[i]], led[i])
        /\ \A i, j \in DOMAIN at : i < j => at[i] < at[j]
        /\ \A k \in 1..n :
             IsTelling(tr[k]) => \/ \E i \in DOMAIN at : at[i] = k
                                \/ \A i \in DOMAIN at : k < at[i]
  BY DEF SuffixTells
<1> DEFINE at2 == [i \in 2..(m + 1) |-> IF i = m + 1 THEN n + 1 ELSE at[i]]
<1> HIDE DEF n, m, tr2, led2
<1>4a. \A i \in 2..m : at[i] \in 1..n /\ i \in 2..(m + 1) /\ i # m + 1
  BY <1>1, <1>2, <1>3
<1>4b. m + 1 \in 2..(m + 1) /\ n + 1 \in 1..(n + 1) /\ 1..n \subseteq 1..(n + 1)
  BY <1>1, <1>2
<1>4c. \A i \in 2..(m + 1) : i = m + 1 \/ i \in 2..m
  BY <1>2
<1>4. /\ at2 \in [2..(m + 1) -> 1..(n + 1)]
      /\ \A i \in 2..m : at2[i] = at[i] /\ at[i] \in 1..n
      /\ at2[m + 1] = n + 1
  BY <1>4a, <1>4b, <1>4c
<1> HIDE DEF at2
<1>5. ASSUME NEW i \in 2..(m + 1)
      PROVE  Tells(tr2[at2[i]], led2[i])
  <2>1. CASE i = m + 1
    BY <1>1, <1>2, <1>4, <2>1
  <2>2. CASE i # m + 1
    <3>1. i \in 2..m /\ i \in 1..m /\ i \in DOMAIN at
      BY <1>2, <1>3, <2>2
    <3>2. tr2[at2[i]] = tr[at[i]] /\ led2[i] = led[i]
      BY <1>1, <1>2, <1>4, <3>1
    <3> QED BY <1>3, <3>1, <3>2
  <2> QED BY <2>1, <2>2
<1>6. ASSUME NEW i \in 2..(m + 1), NEW j \in 2..(m + 1), i < j
      PROVE  at2[i] < at2[j]
  <2>1. i \in 2..m
    BY <1>2, <1>6
  <2>2. CASE j = m + 1
    BY <1>1, <1>4, <2>1, <2>2
  <2>3. CASE j # m + 1
    <3>1. j \in 2..m
      BY <1>2, <2>3
    <3> QED BY <1>3, <1>4, <1>6, <2>1, <3>1
  <2> QED BY <2>2, <2>3
<1>7. ASSUME NEW k \in 1..(n + 1), IsTelling(tr2[k])
      PROVE  \/ \E i \in 2..(m + 1) : at2[i] = k
             \/ \A i \in 2..(m + 1) : k < at2[i]
  <2>1. CASE k = n + 1
    <3>1. m + 1 \in 2..(m + 1)
      BY <1>2
    <3> QED BY <1>4, <2>1, <3>1
  <2>2. CASE k # n + 1
    <3>1. k \in 1..n /\ tr2[k] = tr[k]
      BY <1>1, <2>2
    <3>2. CASE \E i \in 2..m : at[i] = k
      <4>1. PICK i \in 2..m : at[i] = k
        BY <3>2
      <4>2. i \in 2..(m + 1) /\ at2[i] = k
        BY <1>2, <1>4, <4>1
      <4> QED BY <4>2
    <3>3. CASE \A i \in 2..m : k < at[i]
      BY <1>1, <1>2, <1>4, <3>1, <3>3
    <3> QED BY <1>3, <1>7, <3>1, <3>2, <3>3
  <2> QED BY <2>1, <2>2
<1>8. SuffixTells(tr2, led2)
  <2>1. DOMAIN at2 = 2..(m + 1)
    BY <1>4
  <2> QED BY <1>1, <1>2, <1>4, <1>5, <1>6, <1>7, <2>1 DEF SuffixTells
<1> QED BY <1>8 DEF tr2, led2

(* An entry about the world a trace ends in, or about an operation that    *)
(* was committed, leaves that world reproduced.                            *)
LEMMA EntryReproduced ==
  ASSUME NEW S, NEW tr \in Seq(S), NEW entry \in S, NEW v, NEW w,
         entry.stage \in {"observe", "transform"} \/ (Reproduced(tr, v) /\ w = v)
  PROVE  Reproduced(Append(tr, entry), w)
<1>1. /\ Len(tr) \in Nat /\ Len(Append(tr, entry)) = Len(tr) + 1
      /\ \A i \in 1..Len(tr) : Append(tr, entry)[i] = tr[i]
      /\ Append(tr, entry)[Len(tr) + 1] = entry
  BY AppendFacts
<1>2. CASE entry.stage \in {"observe", "transform"}
  BY <1>1, <1>2 DEF Reproduced, RunOn
<1>3. CASE Reproduced(tr, v) /\ w = v
  <2>1. CASE RunOn(tr)
    <3>1. PICK i \in 1..Len(tr) : tr[i].stage \in {"observe", "transform"}
      BY <2>1 DEF RunOn
    <3>2. i \in 1..(Len(tr) + 1) /\ Append(tr, entry)[i].stage = tr[i].stage
      BY <1>1
    <3> QED BY <1>1, <3>1, <3>2 DEF Reproduced, RunOn
  <2>2. CASE Recompiled(v) = v
    BY <1>3, <2>2 DEF Reproduced
  <2> QED BY <1>3, <2>1, <2>2 DEF Reproduced
<1> QED BY <1>2, <1>3

-----------------------------------------------------------------------------
(* The steps *)

(* What a session records is sound, and told.                              *)
LEMMA WorkSound ==
  ASSUME CarriersSound, Work
  PROVE  SessionSound'
<1>1. CASE UNCHANGED <<world, ledger, trace>>
  BY <1>1 DEF CarriersSound, SessionSound
<1>2. ASSUME NEW e \in Events, NEW entry \in TraceEntries, Appends(e, entry)
      PROVE  SessionSound'
  <2>1. SoundLedger(ledger', world')
    BY <1>2, AppendSound DEF CarriersSound, SessionSound
  <2>2. entry \in CarrierEntries
    BY DEF TraceEntries, CarrierEntries
  <2>3. /\ ledger \in Seq(Events) /\ Len(ledger) # 0
        /\ trace \in Seq(CarrierEntries) /\ SuffixTells(trace, ledger)
    BY DEF CarriersSound, SessionSound, SoundLedger, ValidLedger
  <2>4. /\ ledger' = Append(ledger, e) /\ trace' = Append(trace, entry)
        /\ Tells(entry, e) /\ e.result = world'
    BY <1>2 DEF Appends
  <2>5. SuffixTells(trace', ledger')
    BY <2>2, <2>3, <2>4, ToldEntry
  <2>6. trace' \in Seq(CarrierEntries) /\ world' \in Worlds
    BY <2>2, <2>3, <2>4, AppendFacts DEF Events
  <2>7. entry.stage \in {"observe", "transform"} \/ (Reproduced(trace, world) /\ world' = world)
    <3>1. CASE e.kind = "transition"
      BY <1>2, <3>1 DEF Appends, Tells, RunStage
    <3>2. CASE e.kind # "transition"
      BY <1>2, <3>2 DEF Appends, CarriersSound, SessionSound
    <3> QED BY <3>1, <3>2
  <2>8. Reproduced(trace', world')
    BY <2>2, <2>3, <2>4, <2>7, EntryReproduced
  <2> QED BY <2>1, <2>5, <2>6, <2>8 DEF SessionSound
<1> QED BY <1>1, <1>2, StepShape DEF Work, CarriersSound, SessionSound

(* An entry about an export or a resume.                                   *)
LEMMA QuietEntries ==
  ASSUME NEW w \in Worlds
  PROVE  /\ TraceEvent("export", "-", w) \in CarrierEntries
         /\ ~ IsTelling(TraceEvent("export", "-", w))
         /\ TraceEvent("resume", "PASS", w) \in CarrierEntries
         /\ ~ IsTelling(TraceEvent("resume", "PASS", w))
         /\ TraceEvent("compile", Verdict(w), w) \in CarrierEntries
         /\ TraceEvent("compile", "PASS", w) \in CarrierEntries
  BY DEF TraceEvent, CarrierEntries, IsTelling, Stages, Verdict

(* A session that is opened on a model, anew or after a crash, is sound.   *)
LEMMA OpenSound ==
  ASSUME NEW w \in GenesisWorlds
  PROVE  /\ w \in Worlds
         /\ <<TraceEvent("compile", Verdict(w), w)>> \in Seq(CarrierEntries)
         /\ SoundLedger(<<GenesisEvent(w)>>, w)
         /\ SuffixTells(<<TraceEvent("compile", Verdict(w), w)>>, <<GenesisEvent(w)>>)
         /\ \A tr : Reproduced(tr, w)
<1>1. w \in Worlds
  BY GenesisAssumption
<1>2. TraceEvent("compile", Verdict(w), w) \in CarrierEntries
  BY <1>1, QuietEntries
<1>3. Len(<<GenesisEvent(w)>>) = 1
  OBVIOUS
<1>4. Recompiled(w) = w
  BY CompileAssumption
<1> QED BY <1>1, <1>2, <1>3, <1>4, GenesisSound, GenesisTold DEF Reproduced

(* A session resumed from a sound carrier is sound.                        *)
LEMMA ResumeSound ==
  ASSUME NEW c, NEW led, NEW isVerified, SoundCarrier(c), c.format # "ledger",
         \/ led = <<GenesisEvent(c.world)>>
         \/ led = c.ledger /\ c.ledger # NoLedger,
         Resume(c, led, isVerified)
  PROVE  SessionSound'
<1>1. /\ world' = c.world /\ ledger' = led
      /\ trace' = Append(c.trace, TraceEvent("resume", "PASS", c.world))
  BY DEF Resume
<1>2. c.world \in Worlds /\ c.trace \in Seq(CarrierEntries)
  BY DEF SoundCarrier
<1>3. SoundLedger(led, c.world) /\ SuffixTells(c.trace, led)
  <2>1. CASE led = c.ledger /\ c.ledger # NoLedger
    BY <2>1 DEF SoundCarrier
  <2>2. CASE led = <<GenesisEvent(c.world)>>
    <3>1. Len(led) = 1
      BY <2>2
    <3> QED BY <1>2, <2>2, <3>1, GenesisSound, GenesisTold
  <2> QED BY <2>1, <2>2
<1>4. trace' \in Seq(CarrierEntries)
  BY <1>1, <1>2, QuietEntries, AppendFacts
<1>5. SuffixTells(trace', led)
  BY <1>1, <1>2, <1>3, QuietEntries, QuietEntry
<1>6. Reproduced(c.trace, c.world)
  BY DEF SoundCarrier
<1>7. Reproduced(trace', c.world)
  BY <1>1, <1>2, <1>6, QuietEntries, EntryReproduced
<1> QED BY <1>1, <1>2, <1>3, <1>4, <1>5, <1>7 DEF SessionSound

(* A write begins by emptying the file.                                    *)
LEMMA BeginSound ==
  ASSUME CarriersSound, NEW path \in Paths, NEW content, NEW origin,
         SoundCarrier(content), BeginWrite(path, content, origin)
  PROVE  /\ disk' \in [Paths -> {disk[p] : p \in Paths}]' /\ DiskSound'
         /\ PendingSound'
<1>1. /\ disk' = [disk EXCEPT ![path] = Torn]
      /\ pending' = [path |-> path, content |-> content, origin |-> origin]
  BY DEF BeginWrite
<1>2. \A p \in Paths : disk'[p] = IF p = path THEN Torn ELSE disk[p]
  BY <1>1 DEF CarriersSound
<1>3. DiskSound'
  BY <1>2 DEF CarriersSound, DiskSound, SoundCarrier, Complete
<1> QED BY <1>1, <1>2, <1>3 DEF CarriersSound, PendingSound, SoundCarrier

(* A complete file is a sound carrier.                                     *)
LEMMA CompleteIsSound ==
  ASSUME CarriersSound, NEW path \in Paths, Complete(disk[path])
  PROVE  SoundCarrier(disk[path])
  BY DEF CarriersSound, DiskSound, Complete, NoFile, Torn

(* What a session exports is a sound carrier.                              *)
LEMMA ExportsSound ==
  ASSUME SessionSound, NEW signer
  PROVE  /\ Passes(world) =>
              SoundCarrier(Carrier("snapshot", 1, world, trace, NoLedger, signer))
         /\ Passes(world) =>
              SoundCarrier(Carrier("openusd", 3, world, trace, ledger, signer))
         /\ SoundCarrier(Carrier("ledger", 1, world, <<>>, ledger, signer))
<1>1. ledger # NoLedger
  BY DEF SessionSound, SoundLedger, ValidLedger, NoLedger
<1>2. <<>> \in Seq(CarrierEntries)
  OBVIOUS
<1> QED BY <1>1, <1>2 DEF SessionSound, SoundCarrier, Carrier, Complete

(* What a migration writes is a sound carrier.                             *)
LEMMA MigrationSound ==
  ASSUME NEW c, SoundCarrier(c), c.format = "openusd", NEW signer,
         NEW led, led = IF c.ledger # NoLedger THEN c.ledger ELSE <<GenesisEvent(c.world)>>
  PROVE  SoundCarrier(Carrier("openusd", 3, c.world, c.trace, led, signer))
<1>1. /\ c.world \in Worlds /\ c.trace \in Seq(CarrierEntries) /\ Passes(c.world)
      /\ Reproduced(c.trace, c.world)
  BY DEF SoundCarrier
<1>2. SoundLedger(led, c.world) /\ SuffixTells(c.trace, led)
  <2>1. CASE c.ledger # NoLedger
    BY <2>1 DEF SoundCarrier
  <2>2. CASE c.ledger = NoLedger
    <3>1. led = <<GenesisEvent(c.world)>> /\ Len(led) = 1
      BY <2>2
    <3> QED BY <1>1, <3>1, GenesisSound, GenesisTold
  <2> QED BY <2>1, <2>2
<1> QED BY <1>1, <1>2 DEF SoundCarrier, Carrier, Complete

(* Every session starts sound, on carriers of older releases.              *)
LEMMA StartSound == Start => CarriersSound
<1> SUFFICES ASSUME Start PROVE CarriersSound
  OBVIOUS
<1>1. SessionSound
  <2>1. PICK w \in GenesisWorlds :
          /\ world = w
          /\ ledger = <<GenesisEvent(w)>>
          /\ trace = <<TraceEvent("compile", Verdict(w), w)>>
    BY DEF Start, Init
  <2> QED BY <2>1, OpenSound DEF SessionSound
<1>2. ASSUME NEW c \in LegacyCarriers PROVE SoundCarrier(c)
  <2>1. PICK v \in 1..2, w \in GenesisWorlds, s \in Keys \cup {Unsigned} :
          /\ Passes(w)
          /\ c = Carrier("openusd", v, w, <<TraceEvent("compile", "PASS", w)>>, NoLedger, s)
    BY <1>2 DEF LegacyCarriers
  <2>2. w \in Worlds
    BY GenesisAssumption
  <2>3. <<TraceEvent("compile", "PASS", w)>> \in Seq(CarrierEntries)
    BY <2>2, QuietEntries
  <2> QED BY <2>1, <2>2, <2>3, OpenSound DEF SoundCarrier, Carrier, Complete
<1>3. disk \in [Paths -> {disk[path] : path \in Paths}] /\ DiskSound
  BY <1>2 DEF Start, DiskSound
<1>4. PendingSound
  BY DEF Start, PendingSound
<1> QED BY <1>1, <1>3, <1>4 DEF CarriersSound

(* What leaves the files alone leaves them sound.                          *)
LEMMA FilesUntouched ==
  ASSUME CarriersSound, UNCHANGED disk, UNCHANGED pending \/ pending' = Idle
  PROVE  /\ disk' \in [Paths -> {disk[path] : path \in Paths}]' /\ DiskSound'
         /\ PendingSound'
  BY DEF CarriersSound, DiskSound, PendingSound

(* Every step leaves session, files and write in progress sound.           *)
LEMMA StepSound == CarriersSound /\ [Step]_carrierVars => CarriersSound'
<1> SUFFICES ASSUME CarriersSound, [Step]_carrierVars PROVE CarriersSound'
  OBVIOUS
<1>a. ASSUME UNCHANGED <<world, ledger, trace>> PROVE SessionSound'
  BY <1>a DEF CarriersSound, SessionSound
<1>q. ASSUME UNCHANGED <<world, ledger>>, trace' = Append(trace, TraceEvent("export", "-", world))
      PROVE  SessionSound'
  <2>1. /\ world \in Worlds /\ trace \in Seq(CarrierEntries)
        /\ SuffixTells(trace, ledger) /\ Reproduced(trace, world)
    BY DEF CarriersSound, SessionSound
  <2>2. SuffixTells(trace', ledger) /\ trace' \in Seq(CarrierEntries)
    BY <1>q, <2>1, QuietEntries, QuietEntry, AppendFacts
  <2>3. Reproduced(trace', world')
    BY <1>q, <2>1, QuietEntries, EntryReproduced
  <2> QED BY <1>q, <2>2, <2>3 DEF CarriersSound, SessionSound
<1>1. CASE Work
  BY <1>1, WorkSound, FilesUntouched DEF Work, CarriersSound
<1>2. ASSUME NEW path \in Paths, ExportSnapshot(path) PROVE CarriersSound'
  BY <1>2, <1>a, ExportsSound, BeginSound DEF ExportSnapshot, CarriersSound
<1>3. ASSUME NEW path \in Paths, ExportLedger(path) PROVE CarriersSound'
  BY <1>3, <1>a, ExportsSound, BeginSound DEF ExportLedger, CarriersSound
<1>4. ASSUME NEW path \in Paths, NEW signer \in Keys \cup {Unsigned}, ExportOpenUsd(path, signer)
      PROVE  CarriersSound'
  BY <1>4, <1>a, ExportsSound, BeginSound DEF ExportOpenUsd, OpenUsdWrites, CarriersSound
<1>5. CASE ExportView
  BY <1>5, <1>q, FilesUntouched DEF ExportView, CarriersSound
<1>6. ASSUME NEW path \in Paths, LoadSnapshot(path) PROVE CarriersSound'
  <2> DEFINE c == disk[path]
  <2>1. c.format = "snapshot" /\ Resume(c, <<GenesisEvent(c.world)>>, FALSE)
    BY <1>6 DEF LoadSnapshot
  <2>2. SoundCarrier(c)
    BY <2>1, CompleteIsSound DEF Complete
  <2>3. SessionSound'
    <3> HIDE DEF c
    <3> QED BY <2>1, <2>2, ResumeSound
  <2> QED BY <2>1, <2>3, FilesUntouched DEF Resume, CarriersSound
<1>7. ASSUME NEW path \in Paths, NEW trusted \in TrustMaps, NEW required \in BOOLEAN,
             LoadOpenUsd(path, trusted, required)
      PROVE  CarriersSound'
  <2> DEFINE c == disk[path]
             led == IF c.ledger # NoLedger THEN c.ledger ELSE <<GenesisEvent(c.world)>>
  <2>1. c.format = "openusd" /\ Complete(c) /\ Resume(c, led, SignatureVerified(c, trusted))
    BY <1>7 DEF LoadOpenUsd, OpenUsdReads
  <2>2. SoundCarrier(c)
    BY <2>1, CompleteIsSound
  <2>3. SessionSound'
    <3>1. led = <<GenesisEvent(c.world)>> \/ (led = c.ledger /\ c.ledger # NoLedger)
      OBVIOUS
    <3> HIDE DEF c, led
    <3> QED BY <2>1, <2>2, <3>1, ResumeSound
  <2> QED BY <2>1, <2>3, FilesUntouched DEF Resume, CarriersSound
<1>8. ASSUME NEW path \in Paths, NEW trusted \in TrustMaps, NEW required \in BOOLEAN,
             NEW source \in Paths, NEW signer \in Keys \cup {Unsigned},
             Migrate(source, path, signer, trusted, required)
      PROVE  CarriersSound'
  <2> DEFINE c == disk[source]
             led == IF c.ledger # NoLedger THEN c.ledger ELSE <<GenesisEvent(c.world)>>
             content == Carrier("openusd", 3, c.world, c.trace, led, signer)
  <2>1. /\ c.format = "openusd" /\ Complete(c) /\ BeginWrite(path, content, c)
        /\ UNCHANGED <<world, ledger, trace>>
    BY <1>8 DEF Migrate, OpenUsdReads
  <2>2. SoundCarrier(c)
    BY <2>1, CompleteIsSound
  <2>3. SoundCarrier(content)
    BY <2>1, <2>2, MigrationSound
  <2> HIDE DEF c, content
  <2> QED BY <2>1, <2>3, <1>a, BeginSound DEF CarriersSound
<1>9. CASE FinishWrite
  <2>1. pending.path \in Paths /\ SoundCarrier(pending.content)
    BY <1>9 DEF FinishWrite, CarriersSound, PendingSound
  <2>2. /\ disk' = [disk EXCEPT ![pending.path] = pending.content] /\ pending' = Idle
        /\ UNCHANGED <<world, ledger>>
        /\ trace' = trace \/ trace' = Append(trace, TraceEvent("export", "-", world))
    BY <1>9 DEF FinishWrite
  <2>3. \A p \in Paths : disk'[p] = IF p = pending.path THEN pending.content ELSE disk[p]
    BY <2>2 DEF CarriersSound
  <2>4. disk' \in [Paths -> {disk[path] : path \in Paths}]' /\ DiskSound'
    BY <2>1, <2>2, <2>3 DEF CarriersSound, DiskSound
  <2>5. PendingSound'
    BY <2>2 DEF PendingSound
  <2> QED BY <2>2, <2>4, <2>5, <1>a, <1>q DEF CarriersSound
<1>10. CASE FailWrite
  BY <1>10, <1>a, FilesUntouched DEF FailWrite, CarriersSound
<1>11. CASE Restart
  <2>1. PICK w \in GenesisWorlds :
          /\ world' = w
          /\ ledger' = <<GenesisEvent(w)>>
          /\ trace' = <<TraceEvent("compile", Verdict(w), w)>>
    BY <1>11 DEF Restart
  <2>2. SessionSound'
    BY <2>1, OpenSound DEF SessionSound
  <2> QED BY <1>11, <2>2, FilesUntouched DEF Restart, CarriersSound
<1>12. CASE UNCHANGED carrierVars
  BY <1>12, <1>a, FilesUntouched DEF carrierVars, CarriersSound
<1> QED BY <1>1, <1>2, <1>3, <1>4, <1>5, <1>6, <1>7, <1>8, <1>9, <1>10, <1>11, <1>12
        DEF Step

(* Sessions, files and writes in progress are sound at all times.          *)
THEOREM AlwaysSound == CarrierSpec => []CarriersSound
  BY StartSound, StepSound, PTL DEF CarrierSpec

-----------------------------------------------------------------------------
(* What it means *)

(* What a session or a migration wrote to its end, within the budget, can  *)
(* be read back: the checks made while writing imply those made while      *)
(* reading.  That its world is what the push-forward reproduces need only  *)
(* be known after an operation was committed.                              *)
THEOREM WrittenCarriersAlwaysLoad == CarrierSpec => []WrittenCarriersLoad
<1>1. ASSUME CarriersSound PROVE WrittenCarriersLoad
  <2> SUFFICES ASSUME NEW path \in Paths
               PROVE  LET c == disk[path] IN
                 /\ (c.format = "snapshot" /\ (RunOn(c.trace) => Recompiles(c))) =>
                      SnapshotReads(c)
                 /\ c.format = "ledger" => ValidLedger(c.ledger)
                 /\ (c.format = "openusd" /\ (RunOn(c.trace) => Recompiles(c))
                       /\ Len(c.trace) + Len(c.ledger) <= EmbeddedLimit) =>
                      /\ OpenUsdReads(c, <<>>, FALSE)
                      /\ c.signer # Unsigned =>
                           OpenUsdReads(c, [id \in {KeyId(c.signer)} |-> c.signer], TRUE)
    BY DEF WrittenCarriersLoad
  <2> DEFINE c == disk[path]
             own == [id \in {KeyId(c.signer)} |-> c.signer]
  <2>1. Complete(c) => SoundCarrier(c)
    BY <1>1, CompleteIsSound
  <2>2. SignatureAccepted(c, <<>>, FALSE)
    BY DEF SignatureAccepted
  <2>3. c.signer # Unsigned => SignatureAccepted(c, own, TRUE)
    <3>1. DOMAIN own = {KeyId(c.signer)} /\ own[KeyId(c.signer)] = c.signer
      OBVIOUS
    <3> QED BY <3>1 DEF SignatureAccepted
  <2>4. c.format \in {"snapshot", "openusd", "ledger"} => Complete(c)
    BY DEF Complete
  <2> HIDE DEF c, own
  <2>5. c.format \in {"snapshot", "openusd"} /\ (RunOn(c.trace) => Recompiles(c)) =>
          SnapshotReads(c)
    BY <2>1, <2>4 DEF SoundCarrier, SnapshotReads, Recompiles, Reproduced
  <2>6. c.format = "ledger" => ValidLedger(c.ledger)
    BY <2>1, <2>4 DEF SoundCarrier, SoundLedger
  <2>7. (c.format = "openusd" /\ (RunOn(c.trace) => Recompiles(c))
          /\ Len(c.trace) + Len(c.ledger) <= EmbeddedLimit) =>
           /\ OpenUsdReads(c, <<>>, FALSE)
           /\ c.signer # Unsigned => OpenUsdReads(c, own, TRUE)
    BY <2>1, <2>2, <2>3, <2>4, <2>5 DEF SoundCarrier, SoundLedger, OpenUsdReads
  <2> QED BY <2>5, <2>6, <2>7 DEF c, own
<1> QED BY <1>1, AlwaysSound, PTL

(* A ledger that was written to its end, as a file or embedded in a        *)
(* carrier, replays to the world of its session.                           *)
THEOREM WrittenLedgersAlwaysReplay == CarrierSpec => []WrittenLedgersReplay
<1>1. ASSUME CarriersSound PROVE WrittenLedgersReplay
  <2> SUFFICES ASSUME NEW path \in Paths, disk[path].format \in {"openusd", "ledger"},
                      disk[path].ledger # NoLedger
               PROVE  ReplayLedger(disk[path].ledger[1].result, disk[path].ledger)
                        = [ok |-> TRUE, world |-> disk[path].world]
    BY DEF WrittenLedgersReplay
  <2>1. SoundLedger(disk[path].ledger, disk[path].world)
    BY <1>1, CompleteIsSound DEF Complete, SoundCarrier
  <2> DEFINE led == disk[path].ledger
  <2>2. /\ Len(led) \in Nat \ {0} /\ led[1] = GenesisEvent(led[1].result)
        /\ \A i \in 2..Len(led) : ReplaysFrom(led[i-1].result, led[i])
        /\ LedgerHead(led).result = disk[path].world
    BY <2>1, LimitAssumption DEF SoundLedger, ValidLedger
  <2> HIDE DEF led
  <2>3. ReplayLedger(led[1].result, led) = [ok |-> TRUE, world |-> LedgerHead(led).result]
    BY <2>2, ReplayMeaning
  <2> QED BY <2>2, <2>3 DEF led
<1> QED BY <1>1, AlwaysSound, PTL

(* Across exports, crashes and restarts, everything in the ledger after    *)
(* its genesis is told, in order, by the last such entries of the trace.   *)
THEOREM TraceSuffixAlwaysTellsLedger == CarrierSpec => []TraceSuffixTellsLedger
<1>1. CarriersSound => TraceSuffixTellsLedger
  BY DEF CarriersSound, SessionSound, TraceSuffixTellsLedger
<1> QED BY <1>1, AlwaysSound, PTL
=============================================================================
