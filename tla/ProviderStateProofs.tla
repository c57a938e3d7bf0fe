------------------------- MODULE ProviderStateProofs -------------------------
(***************************************************************************)
(* Proofs about the provider scripts.  Of what they keep between probes:   *)
(* the file with the state of Claude's endpoint, the token of GitHub's     *)
(* tool and the logins, for any number of overlapping probes.  And of what *)
(* they make of the answers they get: for any figures and any number of    *)
(* limits, models and files.                                               *)
(***************************************************************************)
EXTENDS ClaudeUsageState, CopilotToken, LoginProbe, ProviderProbes, WellFoundedInduction, TLAPS

(***************************************************************************)
(* ClaudeUsageState                                                        *)
(***************************************************************************)
FileState == [whole : BOOLEAN, until : Nat, last : Nat, refreshed : Nat]

UsageState ==
  [pc : {"idle", "fetch", "write", "renew", "again", "limited"}, at : Nat, mem : FileState,
   next : {"renew", "done"}]

UsageTypeOK ==
  /\ moment \in Nat /\ renewed \in Nat
  /\ usageFile \in FileState
  /\ usage \in [UsageProbe -> UsageState]
  /\ kept \in [at : Nat, until : Nat]

Says(state) == kept.at = state.last /\ kept.until = state.until

\* What the history keeps is what the file says, or will say when a write ends.
KeptInv ==
  /\ ~unsaved => usageFile.whole /\ Says(usageFile)
  /\ \A p \in UsageProbe : Writing(p) => ~usageFile.whole /\ unsaved /\ Says(usage[p].mem)

SoleWriter == \A p \in UsageProbe : \A q \in UsageProbe \ {p} : ~(Writing(p) /\ Writing(q))

\* A probe writes no torn file of its own accord.
WholeInv == \A p \in UsageProbe : usage[p].pc # "idle" => usage[p].mem.whole

Reading(p) == usage[p].pc \in {"fetch", "renew", "again", "limited"}

\* Until another writes, a probe knows the renewal that is on file.
MemInv ==
  \A p \in UsageProbe \ overtaken : Reading(p) =>
    /\ usage[p].mem.refreshed = usageFile.refreshed
    /\ \A q \in UsageProbe : ~Writing(q)

Apart(a, b) == a + Cooldown < b \/ b + Cooldown < a

Renewing(p) == usage[p].pc = "renew" \/ (Writing(p) /\ usage[p].next = "renew")

\* A renewal is noted on file, or in what is being written to it.
Noted(n) ==
  /\ \A p \in UsageProbe : Writing(p) => n <= usage[p].mem.refreshed
  /\ (\A p \in UsageProbe : ~Writing(p)) => n <= usageFile.refreshed

\* Every renewal is noted, those about to be made included, and these are
\* further than Cooldown from each other and from the last one.
RenewInv ==
  /\ Noted(renewed)
  /\ \A p \in UsageProbe : Renewing(p) =>
       /\ Noted(usage[p].at)
       /\ Apart(usage[p].at, renewed)
       /\ \A q \in UsageProbe \ {p} : Renewing(q) => Apart(usage[p].at, usage[q].at)

UsageInv ==
  /\ UsageTypeOK /\ WholeInv
  /\ ~mixed => ~hasty /\ SoleWriter /\ KeptInv
  /\ ~mixed /\ ~slipped => MemInv /\ RenewInv

LEMMA UsageConstants ==
  /\ MinFetchInterval \in Nat /\ Cooldown \in Nat /\ DefaultBackoff \in Nat
  /\ MaxBackoff \in Nat /\ RetryAfter \subseteq Nat /\ FirstMoment \in Nat
  BY UsageStateAssumption

LEMMA RestingIsState ==
  /\ NoUsageState \in FileState /\ NoUsageState.whole
  /\ Torn \in FileState /\ ~Torn.whole
  /\ Resting \in UsageState /\ Resting.pc = "idle"
  BY DEF NoUsageState, Torn, FileState, Resting, UsageState

LEMMA UsageInitInv == UsageInit => UsageInv
  <1> SUFFICES ASSUME UsageInit PROVE UsageInv
      OBVIOUS
  <1>1. ~hasty
    BY Zenon DEF UsageInit
  <1>2. UsageTypeOK
    BY UsageConstants, RestingIsState DEF UsageInit, UsageTypeOK
  <1>3. \A p \in UsageProbe : usage[p].pc = "idle"
    BY RestingIsState DEF UsageInit
  <1>4. WholeInv /\ SoleWriter /\ MemInv
    BY <1>3 DEF WholeInv, SoleWriter, MemInv, Reading, Writing
  <1>5. KeptInv
    BY <1>3, RestingIsState DEF UsageInit, KeptInv, Says, Writing, NoUsageState
  <1>6. RenewInv
    BY <1>3 DEF RenewInv, Renewing, Noted, Writing, UsageInit, NoUsageState
  <1> QED BY <1>1, <1>2, <1>4, <1>5, <1>6, Zenon DEF UsageInv

\* What becomes of one probe.
LEMMA BecomesInv ==
  ASSUME UsageInv, NEW p \in UsageProbe, NEW u \in UsageState, Becomes(p, u),
         u.pc # "idle" => u.mem.whole
  PROVE  /\ usage' \in [UsageProbe -> UsageState] /\ usage'[p] = u /\ WholeInv'
         /\ \A q \in UsageProbe \ {p} : usage'[q] = usage[q]
  <1>1. /\ usage' \in [UsageProbe -> UsageState] /\ usage'[p] = u
        /\ \A q \in UsageProbe \ {p} : usage'[q] = usage[q]
    BY DEF Becomes, UsageInv, UsageTypeOK
  <1>2. WholeInv'
    BY <1>1 DEF WholeInv, UsageInv
  <1> QED BY <1>1, <1>2

\* A probe goes on, or ends, without a write and without having asked for a
\* renewal: it knows what it knew of the file, or what it has just read.
LEMMA QuietInv ==
  ASSUME UsageInv, NEW p \in UsageProbe, NEW u \in UsageState, Becomes(p, u),
         UNCHANGED <<usageFile, kept>>, renewed' = renewed, moment' \in Nat,
         mixed' = mixed, unsaved' = unsaved, ~slipped' => ~slipped,
         overtaken' \in {overtaken, overtaken \ {p}},
         ~Writing(p), u.pc \in {"idle", "fetch", "limited"}, u.pc # "idle" => u.mem.whole,
         ~mixed /\ ~hasty => ~hasty',
         ~mixed /\ ~slipped' /\ u.pc # "idle" =>
            \/ Reading(p) /\ overtaken' = overtaken /\ u.mem.refreshed = usage[p].mem.refreshed
            \/ u.mem.refreshed = usageFile.refreshed /\ \A q \in UsageProbe : ~Writing(q)
  PROVE  UsageInv'
  <1>1. /\ usage' \in [UsageProbe -> UsageState] /\ usage'[p] = u /\ WholeInv'
        /\ \A q \in UsageProbe \ {p} : usage'[q] = usage[q]
    BY BecomesInv
  <1>2. UsageTypeOK'
    BY <1>1 DEF UsageInv, UsageTypeOK
  <1>3. \A q \in UsageProbe : /\ Writing(q)' <=> Writing(q)
                              /\ Writing(q) => usage'[q] = usage[q]
                              /\ Renewing(q)' => Renewing(q) /\ usage'[q].at = usage[q].at
    BY <1>1 DEF Writing, Renewing
  <1>4. ASSUME SoleWriter, KeptInv PROVE SoleWriter' /\ KeptInv'
    <2>1. SoleWriter'
      BY <1>3, <1>4 DEF SoleWriter
    <2>2. \A q \in UsageProbe : Writing(q)' => ~usageFile.whole /\ unsaved /\ Says(usage'[q].mem)
      BY <1>3, <1>4 DEF KeptInv
    <2>3. KeptInv'
      BY <1>4, <2>2 DEF KeptInv, Says
    <2> QED BY <2>1, <2>3
  <1>5. ASSUME MemInv, ~mixed, ~slipped' PROVE MemInv'
    <2> SUFFICES ASSUME NEW r \in UsageProbe \ overtaken', Reading(r)'
                 PROVE  /\ usage'[r].mem.refreshed = usageFile.refreshed
                        /\ \A q \in UsageProbe : ~Writing(q)
        BY <1>3 DEF MemInv
    <2>1. CASE r = p
      BY <1>1, <1>5, <2>1 DEF MemInv, Reading
    <2>2. CASE r # p
      BY <1>1, <1>5, <2>2 DEF MemInv, Reading
    <2> QED BY <2>1, <2>2
  <1>6. ASSUME RenewInv PROVE RenewInv'
    <2>1. ASSUME NEW n, Noted(n) PROVE Noted(n)'
      BY <1>3, <2>1 DEF Noted
    <2> QED BY <1>3, <1>6, <2>1 DEF RenewInv
  <1> QED BY <1>1, <1>2, <1>4, <1>5, <1>6, Zenon DEF UsageInv

\* A probe starts: it heeds the wait and the interval that are on file.
LEMMA StartUsageInv ==
  ASSUME UsageInv, NEW p \in UsageProbe, StartUsage(p)
  PROVE  UsageInv'
  <1> USE UsageConstants
  <1>1. /\ UNCHANGED <<moment, usageFile, kept, renewed>>
        /\ moment \in Nat /\ usageFile \in FileState /\ kept \in [at : Nat, until : Nat]
        /\ overtaken' = overtaken \ {p} /\ ~Writing(p)
    BY DEF StartUsage, UsageInv, UsageTypeOK, Writing
  <1>2. mixed' = mixed /\ unsaved' = unsaved
    BY Zenon DEF StartUsage
  <1>3. PICK read \in BOOLEAN :
          LET state == hydrateUsageState(read)
          IN  /\ slipped' = (slipped \/ state # usageFile)
              /\ IF TooSoon(state)
                 THEN Becomes(p, Resting) /\ hasty' = hasty
                 ELSE /\ Becomes(p, [Resting EXCEPT !.pc = "fetch", !.at = moment,
                                        !.mem = [state EXCEPT !.until = 0, !.last = moment]])
                      /\ hasty' = \/ hasty
                                  \/ /\ read /\ ~unsaved
                                     /\ \/ moment < kept.until
                                        \/ kept.until = 0 /\ moment < kept.at + MinFetchInterval
    BY Zenon DEF StartUsage
  <1> DEFINE state == hydrateUsageState(read)
             u == [Resting EXCEPT !.pc = "fetch", !.at = moment,
                      !.mem = [state EXCEPT !.until = 0, !.last = moment]]
  <1>4. state \in FileState /\ state.whole /\ (read /\ usageFile.whole => state = usageFile)
    BY <1>1, RestingIsState DEF hydrateUsageState
  <1>5. /\ slipped' = (slipped \/ state # usageFile)
        /\ TooSoon(state) => Becomes(p, Resting) /\ hasty' = hasty
        /\ ~TooSoon(state) =>
             /\ Becomes(p, u)
             /\ hasty' = \/ hasty
                         \/ /\ read /\ ~unsaved
                            /\ \/ moment < kept.until
                               \/ kept.until = 0 /\ moment < kept.at + MinFetchInterval
    BY <1>3, Zenon
  <1> HIDE DEF state
  <1>6. /\ ~slipped' => ~slipped /\ state = usageFile
    BY <1>5, Zenon
  <1>7. CASE TooSoon(state)
    <2>1. Becomes(p, Resting)
      BY <1>5, <1>7
    <2>2. hasty' = hasty
      BY <1>5, <1>7, Zenon
    <2> QED BY <1>1, <1>2, <1>6, <2>1, <2>2, RestingIsState, QuietInv
  <1>8. CASE ~TooSoon(state)
    <2>1. u \in UsageState /\ u.pc = "fetch" /\ u.mem.whole /\ u.mem.refreshed = state.refreshed
      BY <1>1, <1>4, RestingIsState DEF UsageState, FileState
    <2>2. Becomes(p, u)
      BY <1>5, <1>8
    <2> HIDE DEF u
    <2>3. ~mixed /\ ~slipped' =>
            u.mem.refreshed = usageFile.refreshed /\ \A q \in UsageProbe : ~Writing(q)
      BY <1>4, <1>6, <2>1 DEF UsageInv, KeptInv
    <2>4. ~mixed /\ ~hasty => ~hasty'
      <3> SUFFICES ASSUME ~mixed, ~hasty, read, ~unsaved
                   PROVE  ~(\/ moment < kept.until
                            \/ kept.until = 0 /\ moment < kept.at + MinFetchInterval)
          BY <1>5, <1>8, Zenon
      <3>1. state = usageFile /\ Says(state)
        BY <1>4 DEF UsageInv, KeptInv
      <3> QED BY <1>1, <1>4, <1>8, <3>1 DEF Says, TooSoon, FileState
    <2> QED BY <1>1, <1>2, <1>6, <2>1, <2>2, <2>3, <2>4, QuietInv
  <1> QED BY <1>7, <1>8

\* A write begins or cannot: under it no other probe writes, unless what the
\* probes wrote is mixed.
LEMMA PersistInv ==
  ASSUME UsageInv, NEW p \in UsageProbe, NEW state \in FileState, NEW next \in {"renew", "done"},
         Reading(p), state.whole, persistUsageState(p, state, next),
         UNCHANGED <<moment, renewed>>, hasty' = hasty,
         \/ next = "done" /\ state.refreshed = usage[p].mem.refreshed
         \/ next = "renew" /\ state.refreshed = usage[p].at /\ MayRenew(p)
  PROVE  UsageInv'
  <1> USE UsageConstants
  <1> DEFINE u == [usage[p] EXCEPT !.mem = state, !.next = next]
             w == [u EXCEPT !.pc = "write"]
  <1>1. /\ usage[p] \in UsageState /\ usageFile \in FileState /\ ~Writing(p)
        /\ usage \in [UsageProbe -> UsageState] /\ renewed \in Nat
    BY DEF UsageInv, UsageTypeOK, Reading, Writing
  <1>2. kept' = [at |-> state.last, until |-> state.until]
    BY Zenon DEF persistUsageState
  <1>3. unsaved'
    BY Zenon DEF persistUsageState
  <1>4. ~mixed' => ~mixed /\ p \notin overtaken /\ \A q \in UsageProbe : ~Writing(q)
    <2>1. ~mixed' => ~mixed /\ p \notin overtaken /\ \A q \in UsageProbe \ {p} : ~Writing(q)
      BY Zenon DEF persistUsageState
    <2> QED BY <1>1, <2>1, Zenon
  <1>5. \/ usageFile' = Torn /\ Becomes(p, w) /\ Overtakes(p) /\ slipped' = slipped
        \/ Becomes(p, Persisted(u)) /\ slipped' = TRUE /\ UNCHANGED <<usageFile, overtaken>>
    BY Zenon DEF persistUsageState
  <1>6. w \in UsageState /\ w.pc = "write" /\ w.mem = state /\ w.next = next /\ w.at = usage[p].at
    BY <1>1 DEF UsageState
  <1>7. /\ Persisted(u) \in UsageState /\ Persisted(u).pc \in {"renew", "idle"}
        /\ Persisted(u).pc # "idle" => Persisted(u).mem = state
    BY <1>1, RestingIsState DEF UsageState, Persisted
  <1>8. kept' \in [at : Nat, until : Nat] /\ Says(state)'
    BY <1>2 DEF FileState, Says
  <1> HIDE DEF u, w
  <1>9. CASE usageFile' = Torn /\ Becomes(p, w) /\ Overtakes(p) /\ slipped' = slipped
    <2>1. /\ usage' \in [UsageProbe -> UsageState] /\ usage'[p] = w /\ WholeInv'
          /\ \A q \in UsageProbe \ {p} : usage'[q] = usage[q]
      BY <1>6, <1>9, BecomesInv
    <2>2. UsageTypeOK'
      BY <1>8, <1>9, <2>1, RestingIsState DEF UsageInv, UsageTypeOK
    <2>3. ASSUME ~mixed' PROVE \A q \in UsageProbe : Writing(q)' <=> q = p
      BY <1>4, <1>6, <2>1, <2>3 DEF Writing
    <2>4. ~mixed' => SoleWriter' /\ KeptInv'
      BY <1>3, <1>6, <1>8, <1>9, <2>1, <2>3, RestingIsState DEF SoleWriter, KeptInv, Says
    <2>5. ASSUME ~mixed' PROVE MemInv'
      <3>1. ASSUME NEW r \in UsageProbe, Reading(r)' PROVE r \in overtaken'
        <4>1. r # p /\ usage[r].pc # "idle"
          BY <1>6, <2>1, <3>1 DEF Reading
        <4> QED BY <1>9, <4>1 DEF Overtakes
      <3> QED BY <3>1 DEF MemInv
    <2>6. ASSUME ~mixed', ~slipped' PROVE RenewInv'
      <3>1. RenewInv /\ MemInv
        BY <1>4, <1>9, <2>6, Zenon DEF UsageInv
      <3>2. usageFile.refreshed = usage[p].mem.refreshed /\ usageFile.refreshed \in Nat
            /\ state.refreshed \in Nat /\ usage[p].at \in Nat
        BY <1>1, <1>4, <2>6, <3>1 DEF MemInv, FileState, UsageState
      <3>3. ASSUME NEW n \in Nat
            PROVE  Noted(n) => n <= usageFile.refreshed
        BY <1>4, <2>6 DEF Noted
      <3>4. usageFile.refreshed <= state.refreshed
        BY <3>2 DEF MayRenew
      <3>6. ASSUME NEW q \in UsageProbe \ {p}, Renewing(q)'
            PROVE  /\ Renewing(q) /\ usage'[q].at = usage[q].at /\ usage[q].at \in Nat
                   /\ Noted(usage[q].at) /\ Apart(usage[q].at, renewed)
                   /\ usage[q].at <= usageFile.refreshed
        <4>1. Renewing(q) /\ usage'[q].at = usage[q].at /\ usage[q].at \in Nat
          BY <1>1, <2>1, <3>6 DEF Renewing, Writing, UsageState
        <4>2. Noted(usage[q].at) /\ Apart(usage[q].at, renewed)
          BY <3>1, <4>1 DEF RenewInv
        <4> QED BY <3>3, <4>1, <4>2
      <3>7. ASSUME Renewing(p)'
            PROVE  /\ usage'[p].at = usage[p].at /\ usageFile.refreshed + Cooldown < usage[p].at
                   /\ state.refreshed = usage[p].at
        <4>1. next = "renew"
          BY <1>6, <2>1, <3>7 DEF Renewing
        <4> QED BY <1>6, <2>1, <3>2, <4>1 DEF MayRenew
      <3>8. renewed <= usageFile.refreshed
        BY <1>1, <3>1, <3>3 DEF RenewInv
      <3>9. renewed' <= state.refreshed
        BY <1>1, <3>2, <3>4, <3>8
      <3>10. ASSUME NEW q \in UsageProbe, Renewing(q)'
             PROVE  /\ usage'[q].at <= state.refreshed /\ Apart(usage'[q].at, renewed)
                    /\ \A r \in UsageProbe \ {q} : Renewing(r)' => Apart(usage'[q].at, usage'[r].at)
        <4>1. CASE q = p
          <5>1. usage[p].at <= state.refreshed /\ Apart(usage[p].at, renewed)
            BY <1>1, <3>2, <3>7, <3>8, <3>10, <4>1 DEF Apart
          <5>2. ASSUME NEW r \in UsageProbe \ {q}, Renewing(r)' PROVE Apart(usage[p].at, usage'[r].at)
            BY <3>2, <3>6, <3>7, <3>10, <4>1, <5>2 DEF Apart
          <5>3. usage'[q].at = usage[p].at
            BY <3>7, <3>10, <4>1
          <5> QED BY <5>1, <5>2, <5>3
        <4>2. CASE q # p
          <5>1. /\ Renewing(q) /\ usage'[q].at = usage[q].at /\ usage[q].at \in Nat
                /\ Noted(usage[q].at) /\ Apart(usage[q].at, renewed)
                /\ usage[q].at <= usageFile.refreshed
            BY <3>6, <3>10, <4>2
          <5>2. ASSUME NEW r \in UsageProbe \ {q}, Renewing(r)' PROVE Apart(usage[q].at, usage'[r].at)
            <6>1. CASE r = p
              BY <3>2, <3>7, <5>1, <5>2, <6>1 DEF Apart
            <6>2. CASE r # p
              <7>1. Renewing(r) /\ usage'[r].at = usage[r].at
                BY <3>6, <5>2, <6>2
              <7> QED BY <3>1, <5>1, <7>1 DEF RenewInv
            <6> QED BY <6>1, <6>2
          <5>3. usage[q].at <= state.refreshed
            BY <3>2, <3>4, <5>1
          <5> QED BY <5>1, <5>2, <5>3
        <4> QED BY <4>1, <4>2
      <3>11. \A q \in UsageProbe : Writing(q)' => q = p /\ usage'[q].mem = state
        BY <1>6, <2>1, <2>3, <2>6
      <3>12. Writing(p)'
        BY <1>6, <2>1 DEF Writing
      <3> QED BY <1>1, <3>9, <3>10, <3>11, <3>12 DEF RenewInv, Noted
    <2> QED BY <1>4, <2>1, <2>2, <2>4, <2>5, <2>6, Zenon DEF UsageInv
  <1>10. CASE Becomes(p, Persisted(u)) /\ slipped' = TRUE /\ UNCHANGED <<usageFile, overtaken>>
    <2>1. /\ usage' \in [UsageProbe -> UsageState] /\ usage'[p] = Persisted(u) /\ WholeInv'
          /\ \A q \in UsageProbe \ {p} : usage'[q] = usage[q]
      BY <1>7, <1>10, BecomesInv
    <2>2. UsageTypeOK'
      BY <1>8, <1>10, <2>1 DEF UsageInv, UsageTypeOK
    <2>3. ASSUME ~mixed' PROVE \A q \in UsageProbe : ~Writing(q)'
      BY <1>4, <1>7, <2>1, <2>3 DEF Writing
    <2>4. ~mixed' => SoleWriter' /\ KeptInv'
      BY <1>3, <2>3 DEF SoleWriter, KeptInv
    <2>5. slipped'
      BY <1>10
    <2> QED BY <1>4, <2>1, <2>2, <2>4, <2>5, Zenon DEF UsageInv
  <1> QED BY <1>5, <1>9, <1>10

\* A write ends: what the file says now is what was to be noted.
LEMMA WriteEndsInv ==
  ASSUME UsageInv, NEW p \in UsageProbe, WriteEnds(p)
  PROVE  UsageInv'
  <1>1. /\ usage[p] \in UsageState /\ usageFile \in FileState /\ Writing(p)
        /\ UNCHANGED <<moment, kept, renewed>> /\ Overtakes(p) /\ Becomes(p, Persisted(usage[p]))
        /\ usage[p].mem.whole /\ usage[p].mem \in FileState
    BY DEF WriteEnds, UsageInv, UsageTypeOK, WholeInv, Writing, UsageState
  <1>2. mixed' = mixed /\ hasty' = hasty
    BY Zenon DEF WriteEnds
  <1>3. PICK text \in {usage[p].mem, usageFile, Torn} :
          /\ usageFile' = text
          /\ unsaved' = (text # usage[p].mem)
          /\ slipped' = (slipped \/ text # usage[p].mem)
    BY Zenon DEF WriteEnds
  <1>4. /\ ~unsaved' => text = usage[p].mem
        /\ ~slipped' => ~slipped /\ text = usage[p].mem
    BY <1>3, Zenon
  <1>5. /\ Persisted(usage[p]) \in UsageState /\ Persisted(usage[p]).pc \in {"renew", "idle"}
        /\ Persisted(usage[p]).pc = "renew" =>
             /\ Persisted(usage[p]).mem = usage[p].mem /\ Persisted(usage[p]).at = usage[p].at
             /\ usage[p].next = "renew"
    BY <1>1, RestingIsState DEF UsageState, Persisted
  <1>6. /\ usage' \in [UsageProbe -> UsageState] /\ usage'[p] = Persisted(usage[p]) /\ WholeInv'
        /\ \A q \in UsageProbe \ {p} : usage'[q] = usage[q]
    BY <1>1, <1>5, BecomesInv
  <1>7. UsageTypeOK'
    BY <1>1, <1>3, <1>6, RestingIsState DEF UsageInv, UsageTypeOK
  <1>8. ASSUME ~mixed PROVE \A q \in UsageProbe : ~Writing(q)' /\ (Writing(q) => q = p)
    <2>1. \A q \in UsageProbe \ {p} : ~Writing(q)
      BY <1>1, <1>8 DEF UsageInv, SoleWriter
    <2> QED BY <1>5, <1>6, <2>1 DEF Writing
  <1>9. ~mixed => SoleWriter' /\ KeptInv'
    <2> SUFFICES ASSUME ~mixed PROVE SoleWriter' /\ KeptInv'
        OBVIOUS
    <2>1. Says(usage[p].mem)
      BY <1>1 DEF UsageInv, KeptInv
    <2>2. ~unsaved' => usageFile'.whole /\ Says(usageFile)'
      BY <1>1, <1>3, <1>4, <2>1 DEF Says
    <2> QED BY <1>8, <2>2 DEF SoleWriter, KeptInv
  <1>10. ASSUME ~mixed, ~slipped' PROVE MemInv' /\ RenewInv'
    <2>1. usageFile' = usage[p].mem /\ RenewInv
      BY <1>3, <1>4, <1>10, Zenon DEF UsageInv
    <2>2. ASSUME NEW r \in UsageProbe \ overtaken', Reading(r)'
          PROVE  usage'[r].mem.refreshed = usageFile'.refreshed
      <3>1. CASE r = p
        BY <1>5, <1>6, <2>1, <2>2, <3>1 DEF Reading
      <3>2. CASE r # p
        BY <1>1, <1>6, <2>2, <3>2 DEF Reading, Overtakes
      <3> QED BY <3>1, <3>2
    <2>3. MemInv'
      BY <1>8, <1>10, <2>2 DEF MemInv
    <2>4. ASSUME NEW n, Noted(n) PROVE n <= usageFile'.refreshed
      BY <1>1, <2>1, <2>4 DEF Noted
    <2>5. ASSUME NEW q \in UsageProbe, Renewing(q)' PROVE Renewing(q) /\ usage'[q].at = usage[q].at
      <3>1. CASE q = p
        BY <1>1, <1>5, <1>6, <1>8, <1>10, <2>5, <3>1 DEF Renewing
      <3>2. CASE q # p
        BY <1>6, <2>5, <3>2 DEF Renewing, Writing
      <3> QED BY <3>1, <3>2
    <2>6. renewed' <= usageFile'.refreshed
      BY <1>1, <2>1, <2>4 DEF RenewInv
    <2>7. ASSUME NEW q \in UsageProbe, Renewing(q)'
          PROVE  /\ usage'[q].at <= usageFile'.refreshed /\ Apart(usage'[q].at, renewed')
                 /\ \A r \in UsageProbe \ {q} : Renewing(r)' => Apart(usage'[q].at, usage'[r].at)
      <3>1. Renewing(q) /\ usage'[q].at = usage[q].at
        BY <2>5, <2>7
      <3>2. Noted(usage[q].at) /\ Apart(usage[q].at, renewed)
        BY <2>1, <3>1 DEF RenewInv
      <3>3. ASSUME NEW r \in UsageProbe \ {q}, Renewing(r)' PROVE Apart(usage'[q].at, usage'[r].at)
        BY <2>1, <2>5, <3>1, <3>3 DEF RenewInv
      <3>4. usage'[q].at <= usageFile'.refreshed
        BY <2>4, <3>1, <3>2
      <3> QED BY <1>1, <3>1, <3>2, <3>3, <3>4
    <2>8. RenewInv'
      BY <1>8, <1>10, <2>6, <2>7 DEF RenewInv, Noted
    <2> QED BY <2>3, <2>8
  <1> QED BY <1>2, <1>4, <1>6, <1>7, <1>9, <1>10, Zenon DEF UsageInv

\* The login is renewed: the renewals noted by other probes are far from it.
LEMMA RenewStepInv ==
  ASSUME UsageInv, NEW p \in UsageProbe, Renew(p)
  PROVE  UsageInv'
  <1> USE UsageConstants
  <1>1. /\ usage[p] \in UsageState /\ usage[p].pc = "renew" /\ Renewing(p) /\ renewed' = usage[p].at
        /\ UNCHANGED <<moment, usageFile, kept, overtaken>> /\ renewed \in Nat
        /\ usage[p].at \in Nat
    <2>1. usage[p].pc = "renew" /\ renewed' = usage[p].at
          /\ UNCHANGED <<moment, usageFile, kept, overtaken>>
      BY DEF Renew
    <2>2. usage[p] \in UsageState /\ renewed \in Nat
      BY DEF UsageInv, UsageTypeOK
    <2>3. usage[p].at \in Nat
      BY <2>2 DEF UsageState
    <2>4. Renewing(p)
      BY <2>1, Zenon DEF Renewing
    <2> QED BY <2>1, <2>2, <2>3, <2>4
  <1>2. usage[p].mem.whole
    BY <1>1 DEF UsageInv, WholeInv
  <1>3. mixed' = mixed /\ slipped' = slipped /\ unsaved' = unsaved
    BY Zenon DEF Renew
  <1>4. PICK pc \in {"again", "limited"} : Becomes(p, [usage[p] EXCEPT !.pc = pc])
    BY DEF Renew
  <1> DEFINE u == [usage[p] EXCEPT !.pc = pc]
  <1>5. u \in UsageState /\ u.pc \in {"again", "limited"} /\ u.mem = usage[p].mem
    BY <1>1 DEF UsageState
  <1> HIDE DEF u
  <1>6. /\ usage' \in [UsageProbe -> UsageState] /\ usage'[p] = u /\ WholeInv'
        /\ \A q \in UsageProbe \ {p} : usage'[q] = usage[q]
    BY <1>4, <1>5, <1>2, BecomesInv DEF u
  <1>7. UsageTypeOK'
    BY <1>1, <1>6 DEF UsageInv, UsageTypeOK
  <1>8. \A q \in UsageProbe : /\ Writing(q)' <=> Writing(q)
                              /\ usage'[q].mem = usage[q].mem
                              /\ Reading(q)' => Reading(q)
                              /\ Renewing(q)' => q # p /\ Renewing(q) /\ usage'[q].at = usage[q].at
    BY <1>1, <1>5, <1>6 DEF Writing, Renewing, Reading
  <1>9. SoleWriter /\ KeptInv => SoleWriter' /\ KeptInv'
    <2>1. SoleWriter => SoleWriter'
      BY <1>8 DEF SoleWriter
    <2>2. KeptInv => KeptInv'
      BY <1>1, <1>3, <1>8 DEF KeptInv, Says
    <2> QED BY <2>1, <2>2
  <1>10. MemInv => MemInv'
    BY <1>1, <1>8 DEF MemInv
  <1>11. ASSUME RenewInv PROVE RenewInv'
    <2>1. Noted(renewed)'
      <3>1. Noted(usage[p].at)
        BY <1>1, <1>11 DEF RenewInv
      <3> QED BY <1>1, <1>8, <3>1 DEF Noted
    <2>2. ASSUME NEW q \in UsageProbe, Renewing(q)'
          PROVE  /\ Noted(usage[q].at)' /\ Apart(usage'[q].at, renewed')
                 /\ \A r \in UsageProbe \ {q} : Renewing(r)' => Apart(usage'[q].at, usage'[r].at)
      <3>1. q # p /\ Renewing(q) /\ usage'[q].at = usage[q].at
        BY <1>8, <2>2
      <3>2. Noted(usage[q].at) /\ Apart(usage[q].at, usage[p].at)
        BY <1>1, <1>11, <3>1 DEF RenewInv
      <3>3. ASSUME NEW r \in UsageProbe \ {q}, Renewing(r)' PROVE Apart(usage'[q].at, usage'[r].at)
        BY <1>8, <1>11, <3>1, <3>3 DEF RenewInv
      <3>4. Noted(usage[q].at)'
        BY <1>1, <1>8, <3>1, <3>2 DEF Noted
      <3> QED BY <1>1, <3>1, <3>2, <3>3, <3>4
    <2> QED BY <2>1, <2>2 DEF RenewInv
  <1>12. RenewInv => usage[p].at \notin (renewed - Cooldown)..(renewed + Cooldown)
    BY <1>1 DEF RenewInv, Apart
  <1>13. hasty' = \/ hasty
                  \/ /\ renewed > 0 /\ ~slipped
                     /\ usage[p].at \in (renewed - Cooldown)..(renewed + Cooldown)
    BY Zenon DEF Renew
  <1> QED BY <1>3, <1>6, <1>7, <1>9, <1>10, <1>11, <1>12, <1>13, Zenon DEF UsageInv

\* The end of a wait that BackOff keeps.
LEMMA WaitIsNat ==
  ASSUME NEW wait \in {DefaultBackoff} \cup {Wait(r) : r \in RetryAfter}
  PROVE  wait \in Nat
  BY UsageConstants DEF Wait

LEMMA UsageStutters ==
  ASSUME UsageInv, moment' \in Nat, UNCHANGED <<usageFile, usage, kept, renewed, overtaken>>,
         mixed' = mixed, unsaved' = unsaved, slipped' = slipped, hasty' = hasty
  PROVE  UsageInv'
  <1>1. UsageTypeOK' /\ WholeInv'
    BY DEF UsageInv, UsageTypeOK, WholeInv
  <1>2. SoleWriter /\ KeptInv => SoleWriter' /\ KeptInv'
    BY DEF SoleWriter, KeptInv, Says, Writing
  <1>3. MemInv /\ RenewInv => MemInv' /\ RenewInv'
    BY DEF MemInv, RenewInv, Noted, Renewing, Reading, Writing
  <1> QED BY <1>1, <1>2, <1>3, Zenon DEF UsageInv

LEMMA UsageNextInv == UsageInv /\ [UsageNext]_usageVars => UsageInv'
  <1> SUFFICES ASSUME UsageInv, [UsageNext]_usageVars PROVE UsageInv'
      OBVIOUS
  <1> USE UsageConstants
  <1>1. ASSUME NEW p \in UsageProbe
        PROVE  /\ usage[p] \in UsageState /\ usage[p].mem \in FileState /\ moment \in Nat
               /\ Reading(p) => ~Writing(p) /\ usage[p].mem.whole
    BY DEF UsageInv, UsageTypeOK, UsageState, WholeInv, Reading, Writing
  <1>2. ASSUME NEW p \in UsageProbe, Reading(p),
               UNCHANGED <<moment, usageFile, kept, renewed, overtaken>>,
               mixed' = mixed, unsaved' = unsaved, slipped' = slipped, hasty' = hasty,
               \/ Becomes(p, Resting)
               \/ Becomes(p, [usage[p] EXCEPT !.pc = "limited"])
        PROVE  UsageInv'
    <2> DEFINE u == [usage[p] EXCEPT !.pc = "limited"]
    <2>1. u \in UsageState /\ u.pc = "limited" /\ u.mem = usage[p].mem
      BY <1>1 DEF UsageState
    <2>2. CASE Becomes(p, Resting)
      BY <1>1, <1>2, <2>2, RestingIsState, QuietInv
    <2>3. CASE Becomes(p, u)
      <3> HIDE DEF u
      <3> QED BY <1>1, <1>2, <2>1, <2>3, QuietInv
    <2> QED BY <1>2, <2>2, <2>3
  <1>3. ASSUME NEW p \in UsageProbe, FetchFails(p) PROVE UsageInv'
    <2>1. /\ Reading(p) /\ Becomes(p, Resting)
          /\ UNCHANGED <<moment, usageFile, kept, renewed, overtaken>>
      BY <1>3 DEF FetchFails, Reading
    <2>2. mixed' = mixed /\ unsaved' = unsaved /\ slipped' = slipped /\ hasty' = hasty
      BY <1>3, Zenon DEF FetchFails
    <2> QED BY <1>2, <2>1, <2>2
  <1>4. ASSUME NEW p \in UsageProbe, FetchSucceeds(p) PROVE UsageInv'
    <2>1. /\ Reading(p) /\ persistUsageState(p, usage[p].mem, "done") /\ UNCHANGED <<moment, renewed>>
      BY <1>4 DEF FetchSucceeds, Reading
    <2>2. hasty' = hasty
      BY <1>4, Zenon DEF FetchSucceeds
    <2> QED BY <1>1, <2>1, <2>2, PersistInv
  <1>5. ASSUME NEW p \in UsageProbe, FetchLimited(p) PROVE UsageInv'
    <2>1. Reading(p) /\ UNCHANGED <<moment, renewed>>
      BY <1>5 DEF FetchLimited, Reading
    <2>2. hasty' = hasty
      BY <1>5, Zenon DEF FetchLimited
    <2>3. CASE MayRenew(p)
      <3> DEFINE state == [usage[p].mem EXCEPT !.refreshed = usage[p].at]
      <3>1. state \in FileState /\ state.refreshed = usage[p].at /\ state.whole = usage[p].mem.whole
        BY <1>1 DEF UsageState, FileState
      <3>2. persistUsageState(p, state, "renew")
        BY <1>5, <2>3 DEF FetchLimited
      <3> HIDE DEF state
      <3> QED BY <1>1, <2>1, <2>2, <2>3, <3>1, <3>2, PersistInv
    <2>4. CASE ~MayRenew(p)
      <3>1. /\ Becomes(p, [usage[p] EXCEPT !.pc = "limited"])
            /\ UNCHANGED <<usageFile, kept, overtaken>>
        BY <1>5, <2>4 DEF FetchLimited
      <3>2. mixed' = mixed /\ unsaved' = unsaved /\ slipped' = slipped
        BY <1>5, <2>4, Zenon DEF FetchLimited
      <3> QED BY <1>2, <2>1, <2>2, <3>1, <3>2
    <2> QED BY <2>3, <2>4
  <1>6. ASSUME NEW p \in UsageProbe, AgainLimited(p) PROVE UsageInv'
    <2>1. /\ Reading(p) /\ Becomes(p, [usage[p] EXCEPT !.pc = "limited"])
          /\ UNCHANGED <<moment, usageFile, kept, renewed, overtaken>>
      BY <1>6 DEF AgainLimited, Reading
    <2>2. mixed' = mixed /\ unsaved' = unsaved /\ slipped' = slipped /\ hasty' = hasty
      BY <1>6, Zenon DEF AgainLimited
    <2> QED BY <1>2, <2>1, <2>2
  <1>7. ASSUME NEW p \in UsageProbe, BackOff(p) PROVE UsageInv'
    <2>1. PICK wait \in {DefaultBackoff} \cup {Wait(r) : r \in RetryAfter} :
            persistUsageState(p, [usage[p].mem EXCEPT !.until = usage[p].at + wait], "done")
      BY <1>7 DEF BackOff
    <2> DEFINE state == [usage[p].mem EXCEPT !.until = usage[p].at + wait]
    <2>2. Reading(p) /\ UNCHANGED <<moment, renewed>>
      BY <1>7 DEF BackOff, Reading
    <2>3. hasty' = hasty
      BY <1>7, Zenon DEF BackOff
    <2>4. wait \in Nat
      BY <2>1, WaitIsNat
    <2>5. /\ state \in FileState /\ state.refreshed = usage[p].mem.refreshed
          /\ state.whole = usage[p].mem.whole
      BY <1>1, <2>4 DEF UsageState, FileState
    <2>6. persistUsageState(p, state, "done")
      BY <2>1
    <2> HIDE DEF state
    <2> QED BY <1>1, <2>2, <2>3, <2>5, <2>6, PersistInv
  <1>8. CASE TimePasses
    <2>1. moment' \in Nat /\ UNCHANGED <<usageFile, usage, kept, renewed, overtaken>>
      BY <1>8 DEF TimePasses, UsageInv, UsageTypeOK
    <2>2. mixed' = mixed /\ unsaved' = unsaved /\ slipped' = slipped /\ hasty' = hasty
      BY <1>8, Zenon DEF TimePasses
    <2> QED BY <2>1, <2>2, UsageStutters
  <1>9. CASE Restart
    <2>1. /\ usage' = [p \in UsageProbe |-> Resting]
          /\ UNCHANGED <<moment, usageFile, kept, renewed>>
      BY <1>9 DEF Restart
    <2>2. mixed' = mixed /\ unsaved' = unsaved /\ hasty' = hasty
      BY <1>9, Zenon DEF Restart
    <2>3. ~slipped' => ~slipped /\ \A p \in UsageProbe : ~Writing(p)
      BY <1>9, Zenon DEF Restart
    <2>4. \A p \in UsageProbe : usage'[p].pc = "idle"
      BY <2>1, RestingIsState
    <2>5. UsageTypeOK' /\ WholeInv' /\ SoleWriter' /\ MemInv'
      BY <2>1, <2>4, RestingIsState
         DEF UsageInv, UsageTypeOK, WholeInv, SoleWriter, MemInv, Reading, Writing
    <2>6. KeptInv => KeptInv'
      BY <2>1, <2>2, <2>4 DEF KeptInv, Says, Writing
    <2>7. ASSUME RenewInv, ~slipped' PROVE RenewInv'
      <3>1. renewed <= usageFile.refreshed
        BY <2>3, <2>7 DEF RenewInv, Noted
      <3> QED BY <2>1, <2>4, <3>1 DEF RenewInv, Noted, Renewing, Writing
    <2> QED BY <2>2, <2>3, <2>5, <2>6, <2>7, Zenon DEF UsageInv
  <1>10. CASE UNCHANGED usageVars
    <2>1. moment' \in Nat /\ UNCHANGED <<usageFile, usage, kept, renewed, overtaken>>
      BY <1>10 DEF usageVars, UsageInv, UsageTypeOK
    <2>2. mixed' = mixed /\ unsaved' = unsaved /\ slipped' = slipped /\ hasty' = hasty
      BY <1>10, Zenon DEF usageVars
    <2> QED BY <2>1, <2>2, UsageStutters
  <1> QED
    BY <1>3, <1>4, <1>5, <1>6, <1>7, <1>8, <1>9, <1>10, StartUsageInv, RenewStepInv, WriteEndsInv
       DEF UsageNext

\* claude/plugin.js: a probe that can read the file asks neither before the
\* wait that the last answer asked for has ended nor too soon after the last
\* answer, if that is on file, and no two renewals are within the cooldown
\* until a read or a write has failed, whatever restarts the application
\* between two steps; unless overlapping probes have written over each other's
\* file.
THEOREM ClaudeSparesEndpoint == UsageSpec => []EndpointIsSpared
  <1>1. UsageInv => EndpointIsSpared
    BY Zenon DEF UsageInv, EndpointIsSpared
  <1>2. UsageSpec => []UsageInv
    BY UsageInitInv, UsageNextInv, PTL DEF UsageSpec
  <1> QED BY <1>1, <1>2, PTL

(***************************************************************************)
(* CopilotToken                                                            *)
(***************************************************************************)
AskingState ==
  [pc : {"rest", "asked", "again", "ok", "error", "login"}, token : GhToken \cup {NoToken},
   source : {"none", "keychain", "gh-cli", "state"}, good : BOOLEAN]

CopilotTypeOK ==
  /\ keychain \in GhToken \cup {NoToken}
  /\ stateFile \in GhToken \cup {NoToken}
  /\ gh \in GhToken \cup {NoToken}
  /\ accepted \subseteq GhToken
  /\ asking \in [CopilotProbe -> AskingState]

\* A probe in which the tool has held an accepted token since it began.
Good(p) == asking[p].good = TRUE

\* What such a probe has found: while it asks, the tool still holds the
\* accepted token, which is the one it asks with unless a copy came first.
GoodProbe(p) ==
  Good(p) =>
    /\ asking[p].pc \in {"asked", "again"} => gh \in accepted
    /\ asking[p].pc = "asked" => asking[p].source \in {"keychain", "gh-cli"}
    /\ asking[p].pc = "asked" /\ asking[p].source = "gh-cli" => asking[p].token = gh
    /\ asking[p].pc = "again" => asking[p].token = gh
    /\ asking[p].pc # "login"

CopilotInv == CopilotTypeOK /\ \A p \in CopilotProbe : GoodProbe(p)

\* NoToken is not a token of GitHub's, and so is not accepted.
LEMMA NoTokenIsRefused ==
  ASSUME CopilotInv
  PROVE  NoToken \notin accepted
  BY CopilotAssumption DEF CopilotInv, CopilotTypeOK

LEMMA CopilotInitInv == CopilotInit => CopilotInv
  <1> SUFFICES ASSUME CopilotInit PROVE CopilotInv
      OBVIOUS
  <1>1. AtRest \in AskingState
    BY DEF AtRest, Asking, AskingState
  <1>2. CopilotTypeOK
    BY <1>1 DEF CopilotInit, CopilotTypeOK
  <1>3. ASSUME NEW p \in CopilotProbe PROVE GoodProbe(p)
    <2>1. asking[p] = AtRest
      BY DEF CopilotInit
    <2>2. asking[p].good = FALSE
      BY <2>1 DEF AtRest, Asking
    <2> QED BY <2>2 DEF GoodProbe, Good
  <1> QED BY <1>2, <1>3 DEF CopilotInv

\* A step of one probe that leaves the tool and GitHub alone preserves the
\* invariant if what the probe comes to does.
LEMMA ProbeStep ==
  ASSUME CopilotInv, NEW p \in CopilotProbe, NEW a \in AskingState,
         asking' = [asking EXCEPT ![p] = a],
         UNCHANGED <<gh, accepted>>,
         keychain' \in GhToken \cup {NoToken},
         stateFile' \in GhToken \cup {NoToken},
         GoodProbe(p)'
  PROVE  CopilotInv'
  <1>1. CopilotTypeOK'
    BY DEF CopilotInv, CopilotTypeOK
  <1>2. ASSUME NEW q \in CopilotProbe PROVE GoodProbe(q)'
    <2>1. CASE q = p
      BY <2>1
    <2>2. CASE q # p
      <3>1. asking'[q] = asking[q]
        BY <2>2 DEF CopilotInv, CopilotTypeOK
      <3>2. GoodProbe(q)
        BY DEF CopilotInv
      <3> QED BY <3>1, <3>2 DEF GoodProbe, Good
    <2> QED BY <2>1, <2>2
  <1> QED BY <1>1, <1>2 DEF CopilotInv

\* A probe ends: with the invitation to log in only if it was not a good one.
LEMMA EndStep ==
  ASSUME CopilotInv, NEW p \in CopilotProbe, NEW pc \in {"ok", "error", "login"},
         asking' = Ended(p, pc),
         pc = "login" => ~Good(p),
         UNCHANGED <<gh, accepted>>,
         keychain' \in GhToken \cup {NoToken},
         stateFile' \in GhToken \cup {NoToken}
  PROVE  CopilotInv'
  <1> DEFINE a == Asking(pc, NoToken, "none", asking[p].good)
  <1>1. asking[p] \in AskingState
    BY DEF CopilotInv, CopilotTypeOK
  <1>2. asking[p].good \in BOOLEAN
    BY <1>1 DEF AskingState
  <1>3. a \in AskingState
    BY <1>2 DEF AskingState, Asking
  <1>4. asking' = [asking EXCEPT ![p] = a]
    BY Zenon DEF Ended
  <1>5. asking'[p] = a
    BY <1>4 DEF CopilotInv, CopilotTypeOK
  <1>6. a.pc = pc /\ a.good = asking[p].good
    BY DEF Asking
  <1>7. GoodProbe(p)'
    BY <1>5, <1>6 DEF GoodProbe, Good
  <1> HIDE DEF a
  <1> QED BY <1>3, <1>4, <1>7, ProbeStep

\* No probe that asks is a good one any more.
LEMMA UnsettledInv ==
  ASSUME CopilotInv, asking' = Unsettled
  PROVE  /\ asking' \in [CopilotProbe -> AskingState]
         /\ \A p \in CopilotProbe : GoodProbe(p)'
  <1> DEFINE To(p) == IF asking[p].pc \in {"asked", "again"}
                      THEN [asking[p] EXCEPT !.good = FALSE] ELSE asking[p]
  <1>1. asking' = [p \in CopilotProbe |-> To(p)]
    BY DEF Unsettled
  <1>2. ASSUME NEW p \in CopilotProbe PROVE To(p) \in AskingState /\ GoodProbe(p)'
    <2>1. asking[p] \in AskingState /\ GoodProbe(p) /\ asking'[p] = To(p)
      BY <1>1 DEF CopilotInv, CopilotTypeOK
    <2>2. CASE asking[p].pc \in {"asked", "again"}
      <3>1. To(p) = [asking[p] EXCEPT !.good = FALSE]
        BY <2>2
      <3>2. To(p) \in AskingState /\ To(p).good = FALSE
        BY <2>1, <3>1 DEF AskingState
      <3> QED BY <2>1, <3>2 DEF GoodProbe, Good
    <2>3. CASE asking[p].pc \notin {"asked", "again"}
      <3>1. asking'[p] = asking[p] /\ To(p) = asking[p]
        BY <2>1, <2>3
      <3> QED BY <2>1, <2>3, <3>1 DEF GoodProbe, Good
    <2> QED BY <2>2, <2>3
  <1> HIDE DEF To
  <1> QED BY <1>1, <1>2

\* A probe starts with the best token it finds.
LEMMA StartInv ==
  ASSUME CopilotInv, NEW p \in CopilotProbe, StartCopilot(p)
  PROVE  CopilotInv'
  <1> DEFINE good == gh \in accepted
  <1> DEFINE a == IF loadToken.token = NoToken THEN Asking("login", NoToken, "none", good)
                  ELSE Asking("asked", loadToken.token, loadToken.source, good)
  <1>1. asking' = [asking EXCEPT ![p] = a]
    BY Zenon DEF StartCopilot
  <1>2. /\ loadToken.token \in GhToken \cup {NoToken}
        /\ loadToken.source \in {"keychain", "gh-cli", "state"}
    BY DEF loadToken, CopilotInv, CopilotTypeOK
  <1>3. good \in BOOLEAN
    BY SMT
  <1>4. a \in AskingState
    <2> HIDE DEF good
    <2> QED BY <1>2, <1>3 DEF AskingState, Asking
  <1>5. UNCHANGED <<keychain, stateFile, gh, accepted>>
    BY DEF StartCopilot
  <1>6. asking'[p] = a
    BY <1>1 DEF CopilotInv, CopilotTypeOK
  <1>7. a.good = good
    <2> HIDE DEF good
    <2> QED BY DEF Asking
  <1>8. Good(p)' => gh \in accepted
    <2>1. Good(p)' <=> a.good = TRUE
      BY <1>6, Zenon DEF Good
    <2> HIDE DEF a
    <2> QED BY <2>1, <1>7, Zenon
  <1>9. gh \in accepted => /\ loadToken.token # NoToken
                           /\ loadToken.source \in {"keychain", "gh-cli"}
                           /\ loadToken.source = "gh-cli" => loadToken.token = gh
    <2> SUFFICES ASSUME gh \in accepted
                 PROVE  /\ loadToken.token # NoToken
                        /\ loadToken.source \in {"keychain", "gh-cli"}
                        /\ loadToken.source = "gh-cli" => loadToken.token = gh
        OBVIOUS
    <2>1. gh # NoToken
      BY NoTokenIsRefused
    <2> QED BY <2>1 DEF loadToken
  <1>10. loadToken.token # NoToken =>
           a.pc = "asked" /\ a.token = loadToken.token /\ a.source = loadToken.source
    <2> HIDE DEF good
    <2> QED BY DEF Asking
  <1>11. GoodProbe(p)'
    <2> HIDE DEF a, good
    <2> QED BY <1>5, <1>6, <1>8, <1>9, <1>10 DEF GoodProbe
  <1> HIDE DEF a, good
  <1> QED BY <1>1, <1>4, <1>5, <1>11, ProbeStep DEF CopilotInv, CopilotTypeOK

\* A refused copy is forgotten, and the tool's own token is tried.
LEMMA RefusedInv ==
  ASSUME CopilotInv, NEW p \in CopilotProbe, CopilotRefused(p)
  PROVE  CopilotInv'
  <1>1. /\ asking[p] \in AskingState /\ asking[p].pc = "asked" /\ asking[p].token \notin accepted
        /\ UNCHANGED <<gh, accepted>> /\ GoodProbe(p)
    BY DEF CopilotRefused, CopilotInv, CopilotTypeOK
  <1>2. keychain' \in GhToken \cup {NoToken} /\ stateFile' \in GhToken \cup {NoToken}
    BY DEF CopilotRefused, clearCachedToken, CopilotInv, CopilotTypeOK
  <1>3. CASE asking[p].source = "keychain" /\ gh # NoToken
    <2> DEFINE a == [asking[p] EXCEPT !.pc = "again", !.token = gh, !.source = "gh-cli"]
    <2>1. asking' = [asking EXCEPT ![p] = Asking("again", gh, "gh-cli", asking[p].good)]
      BY <1>3 DEF CopilotRefused, CopilotInv, CopilotTypeOK
    <2>2. Asking("again", gh, "gh-cli", asking[p].good) \in AskingState
      BY <1>1 DEF Asking, AskingState, CopilotInv, CopilotTypeOK
    <2>3. asking'[p] = Asking("again", gh, "gh-cli", asking[p].good)
      BY <2>1 DEF CopilotInv, CopilotTypeOK
    <2>4. /\ asking'[p].pc = "again" /\ asking'[p].token = gh
          /\ asking'[p].good = asking[p].good
      BY <2>3 DEF Asking
    <2>5. GoodProbe(p)'
      BY <1>1, <2>4 DEF GoodProbe, Good
    <2> QED BY <1>1, <1>2, <2>1, <2>2, <2>5, ProbeStep
  <1>4. CASE ~(asking[p].source = "keychain" /\ gh # NoToken)
    <2>1. asking' = Ended(p, "login")
      BY <1>4 DEF CopilotRefused
    <2>2. ~Good(p)
      BY <1>1, <1>4, NoTokenIsRefused DEF GoodProbe
    <2> QED BY <1>1, <1>2, <2>1, <2>2, EndStep
  <1> QED BY <1>3, <1>4

LEMMA CopilotNextInv == CopilotInv /\ [CopilotNext]_copilotVars => CopilotInv'
  <1> SUFFICES ASSUME CopilotInv, [CopilotNext]_copilotVars PROVE CopilotInv'
      OBVIOUS
  <1>1. ASSUME NEW p \in CopilotProbe, StartCopilot(p) PROVE CopilotInv'
    BY <1>1, StartInv
  <1>2. ASSUME NEW p \in CopilotProbe, CopilotAnswered(p) PROVE CopilotInv'
    <2>1. /\ asking' = Ended(p, "ok") /\ UNCHANGED <<gh, accepted>>
          /\ asking[p].token \in accepted
      BY <1>2 DEF CopilotAnswered
    <2>2. keychain' \in GhToken \cup {NoToken} /\ stateFile' \in GhToken \cup {NoToken}
      BY <1>2, <2>1 DEF CopilotAnswered, saveToken, CopilotInv, CopilotTypeOK
    <2> QED BY <2>1, <2>2, EndStep
  <1>3. ASSUME NEW p \in CopilotProbe, CopilotFails(p) PROVE CopilotInv'
    <2>1. asking' = Ended(p, "error") /\ UNCHANGED <<keychain, stateFile, gh, accepted>>
      BY <1>3 DEF CopilotFails
    <2> QED BY <2>1, EndStep DEF CopilotInv, CopilotTypeOK
  <1>4. ASSUME NEW p \in CopilotProbe, CopilotRefused(p) PROVE CopilotInv'
    BY <1>4, RefusedInv
  <1>5. ASSUME NEW p \in CopilotProbe, CopilotRefusedAgain(p) PROVE CopilotInv'
    <2>1. /\ asking' = Ended(p, "login") /\ UNCHANGED <<keychain, stateFile, gh, accepted>>
          /\ asking[p].pc = "again" /\ asking[p].token \notin accepted
      BY <1>5 DEF CopilotRefusedAgain
    <2>2. ~Good(p)
      BY <2>1 DEF GoodProbe, CopilotInv
    <2> QED BY <2>1, <2>2, EndStep DEF CopilotInv, CopilotTypeOK
  <1>6. ASSUME NEW t \in GhToken, GhLogin(t) PROVE CopilotInv'
    <2>1. asking' = Unsettled
      BY <1>6 DEF GhLogin
    <2>2. CopilotTypeOK'
      BY <1>6, <2>1, UnsettledInv DEF GhLogin, CopilotInv, CopilotTypeOK
    <2> QED BY <2>1, <2>2, UnsettledInv DEF CopilotInv
  <1>7. CASE GhLogout
    <2>1. asking' = Unsettled
      BY <1>7 DEF GhLogout
    <2>2. CopilotTypeOK'
      BY <1>7, <2>1, UnsettledInv DEF GhLogout, CopilotInv, CopilotTypeOK
    <2> QED BY <2>1, <2>2, UnsettledInv DEF CopilotInv
  <1>8. ASSUME NEW t \in GhToken, Revoke(t) PROVE CopilotInv'
    <2>1. CASE t = gh
      <3>1. asking' = Unsettled
        BY <1>8, <2>1 DEF Revoke
      <3>2. CopilotTypeOK'
        BY <1>8, <3>1, UnsettledInv DEF Revoke, CopilotInv, CopilotTypeOK
      <3> QED BY <3>1, <3>2, UnsettledInv DEF CopilotInv
    <2>2. CASE t # gh
      <3>1. /\ UNCHANGED <<keychain, stateFile, gh, asking>>
            /\ accepted' = accepted \ {t}
        BY <1>8, <2>2 DEF Revoke
      <3>2. CopilotTypeOK'
        BY <3>1 DEF CopilotInv, CopilotTypeOK
      <3>3. ASSUME NEW p \in CopilotProbe PROVE GoodProbe(p)'
        BY <2>2, <3>1 DEF GoodProbe, Good, CopilotInv
      <3> QED BY <3>2, <3>3 DEF CopilotInv
    <2> QED BY <2>1, <2>2
  <1>9. CASE UNCHANGED copilotVars
    <2>1. UNCHANGED <<keychain, stateFile, gh, accepted, asking>>
      BY <1>9 DEF copilotVars
    <2>2. ASSUME NEW p \in CopilotProbe PROVE GoodProbe(p)'
      BY <2>1 DEF GoodProbe, Good, CopilotInv
    <2> QED BY <2>1, <2>2 DEF CopilotInv, CopilotTypeOK
  <1> QED BY <1>1, <1>2, <1>3, <1>4, <1>5, <1>6, <1>7, <1>8, <1>9 DEF CopilotNext

\* What the invariant says of a probe that asks for a login.
LEMMA InvIsGood == CopilotInv => GoodLoginIsUsed
  <1> SUFFICES ASSUME CopilotInv, NEW p \in CopilotProbe, asking[p].pc = "login"
               PROVE  ~asking[p].good
      BY DEF GoodLoginIsUsed
  <1>1. asking[p] \in AskingState /\ ~(asking[p].good = TRUE)
    BY DEF CopilotInv, CopilotTypeOK, GoodProbe, Good
  <1>2. asking[p].good \in BOOLEAN
    BY <1>1 DEF AskingState
  <1> QED BY <1>1, <1>2, Zenon

\* copilot/plugin.js: a copy of the token that GitHub no longer accepts never
\* hides a good login of the tool, however probes, logins, logouts and
\* revocations interleave, and whichever keychain or file write fails.
THEOREM CopilotUsesGoodLogin == CopilotSpec => []GoodLoginIsUsed
  <1>1. CopilotSpec => []CopilotInv
    BY CopilotInitInv, CopilotNextInv, PTL DEF CopilotSpec
  <1> QED BY <1>1, InvIsGood, PTL

(***************************************************************************)
(* LoginProbe                                                              *)
(***************************************************************************)
Active(p) == probe[p].pc \in {"check", "refresh", "fetch"}

\* The type, with what the type of the model leaves open: a source that is
\* tried exists.
LoginTypesInv ==
  /\ LoginTypeOK
  /\ 1 \in DOMAIN store
  /\ \A p \in Probe : probe[p].src \in DOMAIN store

\* Nobody knows a login that was not issued yet.
IssuedInv ==
  \A s \in DOMAIN store :
    /\ store[s] <= latest[s]
    /\ \A p \in Probe : probe[p].mem[s] <= latest[s]

\* A login about to be written is nowhere else: neither at the source, nor with
\* another probe, nor yet among what the probe remembers.
SaverInv ==
  \A p \in Probe : \A s \in DOMAIN store : Saving(p, s) =>
    /\ probe[p].acc = latest[s] /\ store[s] # latest[s]
    /\ \A q \in Probe : probe[q].mem[s] # latest[s]
    /\ \A q \in Probe \ {p} : ~Saving(q, s)

\* The others know that it has overtaken them.
RacedInv ==
  \A p, q \in Probe : \A s \in DOMAIN store : p # q /\ Saving(p, s) => s \in raced[q]

\* The script of cursor holds on to the refresh token it has used.
Outdated(p) ==
  prov = "managed-cursor" /\ probe[p].pc = "fetch" /\ probe[p].acc # Held(p)

\* Each login a probe has read is the newest, or that it is not has a cause, or
\* it is the one that the probe is replacing or has itself replaced.
HeldInv ==
  \A p \in Probe : \A s \in DOMAIN store : probe[p].pc \notin {"idle", "done"} =>
    \/ probe[p].mem[s] = latest[s]
    \/ s \in lost \cup raced[p]
    \/ probe[p].excused = TRUE
    \/ s = probe[p].src /\ (probe[p].pc = "save" \/ Outdated(p))

\* codex remembers an error of a refresh until the old token is refused.
CauseInv ==
  /\ LoginErrorHasCause
  /\ \A p \in Probe : probe[p].remembered => probe[p].excused

\* The refreshes of Cursor itself, of which a snapshot hears nothing, are among
\* those of its one login, and one that is about to be written is another.
CopyInv ==
  prov = "managed-cursor" =>
    /\ DOMAIN store = {1} /\ tool <= latest[1]
    /\ \A p \in Probe : Saving(p, 1) => tool < latest[1]

LoginInv ==
  /\ LoginTypesInv /\ IssuedInv /\ SaverInv /\ RacedInv /\ HeldInv /\ CauseInv /\ CopyInv
  /\ LoginIsKept

LEMMA LoginConstants ==
  /\ Provider \subseteq {"claude", "codex", "cursor", "managed-cursor", "factory", "grok", "kimi",
                   "kiro"}
  /\ MaxLogin \in Nat /\ MaxTool \in Nat /\ 0 \in Token /\ Token \subseteq Nat
  BY LoginAssumption DEF Token

LEMMA LoginInitInv == LoginInit => LoginInv
  <1> SUFFICES ASSUME LoginInit PROVE LoginInv
      OBVIOUS
  <1>1. /\ DOMAIN store \subseteq Source /\ 1 \in DOMAIN store
        /\ store \in [DOMAIN store -> Token] /\ \A s \in DOMAIN store : store[s] = 0
        /\ prov = "managed-cursor" => DOMAIN store = {1}
    BY LoginConstants DEF LoginInit, Source
  <1>2. Idle \in ProbeState
    BY <1>1, LoginConstants DEF Idle, ProbeState, Pc, Why, Out, Source
  <1>3. \A p \in Probe : probe[p] = Idle
    BY DEF LoginInit
  <1>4. /\ Idle.pc = "idle" /\ Idle.src = 1 /\ Idle.out = "none"
        /\ Idle.mem = [s \in DOMAIN store |-> 0]
    BY DEF Idle
  <1>5. LoginTypesInv
    <2>1. /\ probe \in [Probe -> ProbeState] /\ latest \in [DOMAIN store -> Token]
          /\ access \in [DOMAIN store -> Token]
      BY <1>1, <1>2 DEF LoginInit
    <2>2. aged \in [DOMAIN store -> [upto : Token, kind : Age]]
      BY LoginConstants DEF LoginInit
    <2>3. tool \in 0..MaxTool /\ lost \subseteq DOMAIN store /\ prov \in Provider
          /\ raced \in [Probe -> SUBSET DOMAIN store]
      BY LoginConstants DEF LoginInit
    <2> QED BY <1>1, <1>3, <1>4, <2>1, <2>2, <2>3, Zenon DEF LoginTypesInv, LoginTypeOK
  <1>6. IssuedInv
    BY <1>1, <1>3, <1>4 DEF IssuedInv, LoginInit
  <1>7. SaverInv /\ RacedInv /\ HeldInv /\ CopyInv
    BY <1>1, <1>3, <1>4, LoginConstants DEF SaverInv, RacedInv, HeldInv, CopyInv, Saving, LoginInit
  <1>8. CauseInv
    <2>1. ~Idle.remembered
      BY Zenon DEF Idle
    <2> QED BY <1>3, <1>4, <2>1 DEF CauseInv, LoginErrorHasCause
  <1>9. LoginIsKept
    BY DEF LoginInit, LoginIsKept
  <1> QED BY <1>5, <1>6, <1>7, <1>8, <1>9 DEF LoginInv

LEMMA LoginTypes ==
  ASSUME LoginInv
  PROVE  /\ store \in [DOMAIN store -> Token] /\ latest \in [DOMAIN store -> Token]
         /\ access \in [DOMAIN store -> Token]
         /\ DOMAIN latest = DOMAIN store /\ DOMAIN store \subseteq {1, 2} /\ 1 \in DOMAIN store
         /\ probe \in [Probe -> ProbeState] /\ raced \in [Probe -> SUBSET DOMAIN store]
         /\ lost \subseteq DOMAIN store
         /\ aged \in [DOMAIN store -> [upto : Token, kind : Age]] /\ tool \in 0..MaxTool
         /\ prov \in Provider
         /\ \A p \in Probe : probe[p].src \in DOMAIN store
         /\ \A p \in Probe : probe[p].mem \in [DOMAIN store -> Token]
         /\ \A s \in DOMAIN store : latest[s] \in Nat /\ store[s] \in Nat
         /\ \A p \in Probe : \A s \in DOMAIN store : probe[p].mem[s] \in Nat
  <1>1. LoginTypeOK /\ 1 \in DOMAIN store /\ \A p \in Probe : probe[p].src \in DOMAIN store
    BY DEF LoginInv, LoginTypesInv
  <1>2. DOMAIN store \subseteq {1, 2}
    BY <1>1 DEF LoginTypeOK, Source
  <1>3. \A p \in Probe : probe[p].mem \in [DOMAIN store -> Token]
    BY <1>1 DEF LoginTypeOK, ProbeState
  <1>4. /\ \A s \in DOMAIN store : latest[s] \in Nat /\ store[s] \in Nat
        /\ \A p \in Probe : \A s \in DOMAIN store : probe[p].mem[s] \in Nat
    BY <1>1, <1>3, LoginConstants DEF LoginTypeOK
  <1> QED BY <1>1, <1>2, <1>3, <1>4 DEF LoginTypeOK

\* What a probe may become without asking for a login and without writing one:
\* what it knows it knew before, or reads, or it has forgotten all.
Knows(p, u) ==
  /\ u \in ProbeState /\ u.src \in DOMAIN store /\ u.pc # "save"
  /\ \A s \in DOMAIN store : u.mem[s] \in {probe[p].mem[s], store[s], 0}
  /\ (u.out = "login" \/ u.remembered) => u.excused

\* The next states of the refreshes and of a refused usage request.
Moves(p, u) ==
  /\ u \in ProbeState /\ u.excused = probe[p].excused
  /\ \/ u.pc = "fetch" /\ u.src = probe[p].src /\ u.mem = probe[p].mem
     \/ /\ u.pc = "check" /\ u.src = 2 /\ 2 \in DOMAIN store
        /\ u.mem \in {probe[p].mem, [probe[p].mem EXCEPT ![2] = store[2]]}
     \/ u.pc = "done" /\ u.src = 1 /\ u.mem = [s \in DOMAIN store |-> 0]

LEMMA EndsMoves ==
  ASSUME LoginInv, NEW p \in Probe, NEW out \in {"ok", "error", "login", "stale", "limited"}
  PROVE  Moves(p, Ends(p, out)) /\ Ends(p, out).out = out /\ Ends(p, out).remembered = FALSE
  <1>1. probe[p] \in ProbeState
    BY DEF LoginInv, LoginTypesInv, LoginTypeOK
  <1>2. Idle \in ProbeState
    BY LoginConstants DEF Idle, ProbeState, Pc, Why, Out, Source
  <1> QED BY <1>1, <1>2 DEF Moves, Ends, Idle, ProbeState, Pc, Out

LEMMA NextSourceMoves ==
  ASSUME LoginInv, NEW p \in Probe, 2 \in DOMAIN store
  PROVE  /\ Moves(p, NextSource(p)) /\ NextSource(p).out = probe[p].out
         /\ NextSource(p).remembered = FALSE /\ NextSource(p).src = 2
  <1>1. /\ probe[p] \in ProbeState /\ store \in [DOMAIN store -> Token]
        /\ access \in [DOMAIN store -> Token]
    BY DEF LoginInv, LoginTypesInv, LoginTypeOK
  <1> DEFINE mem == IF prov = "codex" THEN [probe[p].mem EXCEPT ![2] = store[2]] ELSE probe[p].mem
             acc == IF prov = "codex" THEN access[2] ELSE mem[2]
  <1>2. /\ mem \in [DOMAIN store -> Token] /\ acc \in Token
        /\ mem \in {probe[p].mem, [probe[p].mem EXCEPT ![2] = store[2]]}
    BY <1>1 DEF ProbeState
  <1>3. NextSource(p) = [probe[p] EXCEPT !.pc = "check", !.src = 2, !.mem = mem, !.acc = acc,
                           !.reloaded = FALSE, !.remembered = FALSE, !.why = "none"]
    BY DEF NextSource
  <1> HIDE DEF mem, acc
  <1>4. NextSource(p) =
          [pc |-> "check", src |-> 2, mem |-> mem, acc |-> acc, why |-> "none",
           reloaded |-> FALSE, remembered |-> FALSE, excused |-> probe[p].excused,
           out |-> probe[p].out]
    BY <1>1, <1>3 DEF ProbeState
  <1>5. NextSource(p) \in ProbeState
    BY <1>1, <1>2, <1>4 DEF ProbeState, Pc, Source, Why
  <1> QED BY <1>2, <1>4, <1>5 DEF Moves

LEMMA NoLoginMoves ==
  ASSUME LoginInv, NEW p \in Probe, NEW u \in NoLogin(p)
  PROVE  Moves(p, u) /\ u.remembered = FALSE
  <1>1. CASE HasNext(p) /\ u = NextSource(p)
    BY <1>1, NextSourceMoves DEF HasNext
  <1>2. CASE \E out \in {"login", "stale"} : u = Ends(p, out)
    BY <1>2, EndsMoves
  <1>3. (HasNext(p) /\ u = NextSource(p)) \/ u \in {Ends(p, out) : out \in {"login", "stale"}}
    BY DEF NoLogin
  <1> QED BY <1>1, <1>2, <1>3

Where == {"fetch", "remember", "limited", "next", "login"}

LEMMA GoesMoves ==
  ASSUME LoginInv, NEW p \in Probe, NEW w \in Where, NEW u \in Goes(p, w)
  PROVE  Moves(p, u)
  <1>1. probe[p] \in ProbeState
    BY DEF LoginInv, LoginTypesInv, LoginTypeOK
  <1>2. CASE w = "fetch" \/ w = "remember"
    BY <1>1, <1>2 DEF Goes, Moves, ProbeState, Pc
  <1>3. CASE w = "limited"
    BY <1>3, EndsMoves DEF Goes
  <1>4. CASE w = "next" \/ w = "login"
    <2>1. (u = NextSource(p) /\ 2 \in DOMAIN store) \/ u \in NoLogin(p)
      BY <1>4 DEF Goes, HasNext
    <2> QED BY <2>1, NextSourceMoves, NoLoginMoves
  <1> QED BY <1>2, <1>3, <1>4 DEF Where

LEMMA AfterRefreshWhere ==
  ASSUME LoginInv, NEW r, NEW w, NEW k
  PROVE  AfterRefresh(r, w, k) \in Where
  <1>1. prov \in {"claude", "codex", "cursor", "managed-cursor", "factory", "grok", "kimi", "kiro"}
    BY LoginConstants DEF LoginInv, LoginTypesInv, LoginTypeOK
  <1> QED BY <1>1 DEF AfterRefresh, Where, claude_probe, codex_probe, cursor_probe, factory_probe,
            grok_probe, grok_loadAuth, kimi_probe, kiro_fetchLiveState

\* What a store holds is the newest, or the reason is lost or about to be written.
LEMMA ReadHeld ==
  ASSUME LoginInv, NEW p \in Probe, probe[p].pc # "save", NEW s \in DOMAIN store
  PROVE  store[s] = latest[s] \/ s \in lost \cup Unwritten(p)
  BY DEF LoginInv, LoginIsKept, Unwritten, Saving

LEMMA UnwrittenRaced == ASSUME LoginInv, NEW p \in Probe PROVE Unwritten(p) \subseteq raced[p]
  BY DEF LoginInv, RacedInv, Unwritten

LEMMA JustReadRaced ==
  ASSUME LoginInv, NEW p \in Probe, probe[p].pc # "save", NEW s \in DOMAIN store, JustRead(p, s)
  PROVE  /\ raced' \in [Probe -> SUBSET DOMAIN store]
         /\ \A q \in Probe \ {p} : raced'[q] = raced[q]
         /\ Unwritten(p) \subseteq raced'[p] /\ raced[p] \ {s} \subseteq raced'[p]
         /\ store[s] = latest[s] \/ s \in lost \cup raced'[p]
  <1>1. raced \in [Probe -> SUBSET DOMAIN store]
    BY DEF LoginInv, LoginTypesInv, LoginTypeOK
  <1>2. /\ raced'[p] = (raced[p] \ {s}) \cup (Unwritten(p) \cap {s})
        /\ \A q \in Probe \ {p} : raced'[q] = raced[q]
        /\ raced' \in [Probe -> SUBSET DOMAIN store]
    BY <1>1 DEF JustRead
  <1> QED BY <1>2, UnwrittenRaced, ReadHeld

\* A step of one probe that touches neither the sources nor the server.
LEMMA KnowsStep ==
  ASSUME LoginInv, NEW p \in Probe, NEW u, Knows(p, u), probe[p].pc # "save",
         probe' = [probe EXCEPT ![p] = u], UNCHANGED <<prov, store, access, latest, aged, tool, lost>>,
         raced' \in [Probe -> SUBSET DOMAIN store],
         \A q \in Probe \ {p} : raced'[q] = raced[q],
         Unwritten(p) \subseteq raced'[p],
         u.pc # "done" /\ u.excused # TRUE =>
           \A s \in DOMAIN store : u.mem[s] = latest[s] \/ s \in lost \cup raced'[p]
  PROVE  LoginInv'
  <1>1. /\ probe \in [Probe -> ProbeState] /\ probe'[p] = u
        /\ \A q \in Probe \ {p} : probe'[q] = probe[q]
    BY DEF LoginInv, LoginTypesInv, LoginTypeOK
  <1>2. \A q \in Probe : \A s \in DOMAIN store : Saving(q, s)' <=> Saving(q, s) /\ q # p
    BY <1>1 DEF Saving, Knows
  <1>3. LoginTypesInv'
    <2>1. probe' \in [Probe -> ProbeState]
      BY <1>1 DEF Knows
    <2>2. ProbeState' = ProbeState
      BY DEF ProbeState
    <2>3. LoginTypeOK'
      BY <2>1, <2>2, Zenon DEF LoginInv, LoginTypesInv, LoginTypeOK
    <2>4. \A q \in Probe : probe'[q].src \in DOMAIN store
      BY <1>1 DEF Knows, LoginInv, LoginTypesInv
    <2> QED BY <2>3, <2>4 DEF LoginInv, LoginTypesInv
  <1>4. IssuedInv'
    <2>1. \A s \in DOMAIN store : store[s] <= latest[s] /\ 0 <= latest[s]
      BY LoginConstants DEF LoginInv, IssuedInv, LoginTypesInv, LoginTypeOK
    <2> QED BY <1>1, <2>1 DEF LoginInv, IssuedInv, Knows
  <1>5. SaverInv'
    <2> SUFFICES ASSUME NEW q \in Probe, NEW s \in DOMAIN store, Saving(q, s), q # p
                 PROVE  /\ probe'[q].acc = latest[s] /\ store[s] # latest[s]
                        /\ \A r \in Probe : probe'[r].mem[s] # latest[s]
                        /\ \A r \in Probe \ {q} : ~Saving(r, s)'
      BY <1>2 DEF SaverInv
    <2>1. /\ probe[q].acc = latest[s] /\ store[s] # latest[s]
          /\ \A r \in Probe : probe[r].mem[s] # latest[s]
          /\ \A r \in Probe \ {q} : ~Saving(r, s)
      BY DEF LoginInv, SaverInv
    <2>2. latest[s] # 0
      BY <2>1, LoginConstants DEF LoginInv, IssuedInv, LoginTypesInv, LoginTypeOK
    <2>3. u.mem[s] # latest[s]
      BY <2>1, <2>2 DEF Knows
    <2> QED BY <1>1, <1>2, <2>1, <2>3
  <1>6. RacedInv'
    BY <1>2 DEF LoginInv, RacedInv, Unwritten
  <1>7. HeldInv' /\ CopyInv'
    <2>1. HeldInv'
      BY <1>1 DEF LoginInv, HeldInv, Held, Outdated
    <2>2. CopyInv'
      BY <1>2 DEF LoginInv, CopyInv
    <2> QED BY <2>1, <2>2
  <1>8. CauseInv'
    <2>1. u.out = "login" => u.excused
      BY Zenon DEF Knows
    <2>2. u.remembered => u.excused
      BY Zenon DEF Knows
    <2> QED BY <1>1, <2>1, <2>2, Zenon DEF LoginInv, CauseInv, LoginErrorHasCause
  <1>9. LoginIsKept'
    <2> SUFFICES ASSUME NEW s \in DOMAIN store, store[s] # latest[s], s \notin lost
                 PROVE  \E q \in Probe : Saving(q, s)'
      BY DEF LoginIsKept
    <2>1. PICK q \in Probe : Saving(q, s)
      BY DEF LoginInv, LoginIsKept
    <2>2. q # p
      BY <2>1 DEF Saving
    <2> QED BY <1>2, <2>1, <2>2
  <1> QED BY <1>3, <1>4, <1>5, <1>6, <1>7, <1>8, <1>9 DEF LoginInv

\* What a move leads to is known.
LEMMA MovesKnown ==
  ASSUME LoginInv, NEW p \in Probe, Active(p), NEW u, Moves(p, u)
  PROVE  /\ u \in ProbeState /\ u.src \in DOMAIN store /\ u.pc # "save"
         /\ \A s \in DOMAIN store : u.mem[s] \in {probe[p].mem[s], store[s], 0}
  <1>1. /\ probe[p] \in ProbeState /\ probe[p].src \in DOMAIN store /\ 1 \in DOMAIN store
        /\ DOMAIN probe[p].mem = DOMAIN store
    BY DEF LoginInv, LoginTypesInv, LoginTypeOK, ProbeState
  <1> QED BY <1>1 DEF Moves

LEMMA ExcusedKnows ==
  ASSUME LoginInv, NEW p \in Probe, Active(p), NEW n, Moves(p, n)
  PROVE  LET u == [n EXCEPT !.excused = TRUE]
         IN  /\ Knows(p, u) /\ u.pc = n.pc /\ u.src = n.src /\ u.mem = n.mem
             /\ u.excused = TRUE
  <1> DEFINE u == [n EXCEPT !.excused = TRUE]
  <1>1. n \in ProbeState
    BY DEF Moves
  <1>2. /\ u \in ProbeState /\ u.excused = TRUE /\ u.pc = n.pc /\ u.src = n.src /\ u.mem = n.mem
    BY <1>1 DEF ProbeState
  <1> HIDE DEF u
  <1>3. Knows(p, u)
    BY <1>2, MovesKnown DEF Knows
  <1> QED BY <1>2, <1>3 DEF u

LEMMA LoadInv == ASSUME LoginInv, NEW p \in Probe, Load(p) PROVE LoginInv'
  <1> DEFINE u == [Idle EXCEPT !.pc = "check", !.mem = store, !.acc = access[1]]
  <1>1. /\ store \in [DOMAIN store -> Token] /\ 1 \in DOMAIN store /\ access[1] \in Token
        /\ raced \in [Probe -> SUBSET DOMAIN store]
    BY DEF LoginInv, LoginTypesInv, LoginTypeOK
  <1>2. /\ Idle \in ProbeState /\ Idle.src = 1 /\ Idle.out = "none" /\ Idle.remembered = FALSE
    BY LoginConstants DEF Idle, ProbeState, Pc, Why, Out, Source
  <1>3. u \in ProbeState
    BY <1>1, <1>2 DEF ProbeState, Pc
  <1>4. /\ u.pc = "check" /\ u.src = 1 /\ u.mem = store /\ u.out = "none" /\ u.remembered = FALSE
    BY <1>2 DEF ProbeState
  <1>5. probe[p].pc # "save"
    BY DEF Load
  <1>6. \A s \in DOMAIN store : store[s] = latest[s] \/ s \in lost \cup Unwritten(p)
    BY <1>5, ReadHeld
  <1>7. /\ raced' \in [Probe -> SUBSET DOMAIN store] /\ raced'[p] = Unwritten(p)
        /\ \A q \in Probe \ {p} : raced'[q] = raced[q]
    BY <1>1 DEF Load, Unwritten
  <1>8. /\ probe' = [probe EXCEPT ![p] = u]
        /\ UNCHANGED <<prov, store, access, latest, aged, tool, lost>>
    BY DEF Load
  <1> HIDE DEF u
  <1>9. Knows(p, u)
    BY <1>1, <1>3, <1>4 DEF Knows
  <1> QED BY <1>4, <1>5, <1>6, <1>7, <1>8, <1>9, KnowsStep

LEMMA LoginCheckInv == ASSUME LoginInv, NEW p \in Probe, Check(p) PROVE LoginInv'
  <1> DEFINE s == probe[p].src
             due(n) == AgeOf(s, n) \in {"due", "expired"}
             reads == prov = "codex" /\ due(probe[p].acc)
             mem == IF reads THEN reloadAuthState(p) ELSE probe[p].mem
             acc == IF reads THEN access[s] ELSE probe[p].acc
             pc == IF due(acc) THEN "refresh" ELSE "fetch"
             u == [probe[p] EXCEPT !.pc = pc, !.mem = mem, !.acc = acc, !.why = "due"]
  <1>1. /\ probe[p].pc = "check" /\ probe' = [probe EXCEPT ![p] = u]
        /\ IF reads THEN JustRead(p, s) ELSE UNCHANGED raced
        /\ UNCHANGED <<prov, store, access, latest, aged, tool, lost>>
    BY DEF Check
  <1>2. /\ store \in [DOMAIN store -> Token] /\ s \in DOMAIN store
        /\ raced \in [Probe -> SUBSET DOMAIN store] /\ probe[p] \in ProbeState
        /\ access \in [DOMAIN store -> Token]
    BY DEF LoginInv, LoginTypesInv, LoginTypeOK
  <1>3. /\ mem \in [DOMAIN store -> Token] /\ acc \in Token
        /\ reads => mem[s] = store[s] /\ \A t \in DOMAIN store \ {s} : mem[t] = probe[p].mem[t]
        /\ ~reads => mem = probe[p].mem
    BY <1>2 DEF reloadAuthState, ProbeState
  <1>4. pc \in {"refresh", "fetch"}
    OBVIOUS
  <1> HIDE DEF s, reads, mem, acc, pc
  <1>5. /\ u.pc = pc /\ u.src = s /\ u.mem = mem /\ u.out = probe[p].out
        /\ u.remembered = probe[p].remembered /\ u.excused = probe[p].excused
    BY <1>2 DEF ProbeState, s
  <1>6. u \in ProbeState
    BY <1>2, <1>3, <1>4 DEF ProbeState, Pc, Why, s
  <1>7. Knows(p, u)
    <2>1. (u.out = "login" \/ u.remembered) => u.excused
      <3>1. (probe[p].out = "login" \/ probe[p].remembered) => probe[p].excused
        BY Zenon DEF LoginInv, CauseInv, LoginErrorHasCause
      <3>2. /\ u.out = probe[p].out /\ u.remembered = probe[p].remembered
            /\ u.excused = probe[p].excused
        BY <1>5
      <3> QED BY <3>1, <3>2, Zenon
    <2> QED BY <1>2, <1>3, <1>4, <1>5, <1>6, <2>1 DEF Knows
  <1>8. /\ raced' \in [Probe -> SUBSET DOMAIN store]
        /\ \A q \in Probe \ {p} : raced'[q] = raced[q]
        /\ Unwritten(p) \subseteq raced'[p]
        /\ u.excused # TRUE =>
             \A t \in DOMAIN store : mem[t] = latest[t] \/ t \in lost \cup raced'[p]
    <2>1. u.excused # TRUE =>
            \A t \in DOMAIN store : probe[p].mem[t] = latest[t] \/ t \in lost \cup raced[p]
      BY <1>1, <1>5 DEF LoginInv, HeldInv, Outdated
    <2>2. CASE reads
      <3>1. /\ raced' \in [Probe -> SUBSET DOMAIN store]
            /\ \A q \in Probe \ {p} : raced'[q] = raced[q]
            /\ Unwritten(p) \subseteq raced'[p] /\ raced[p] \ {s} \subseteq raced'[p]
            /\ store[s] = latest[s] \/ s \in lost \cup raced'[p]
        BY <1>1, <1>2, <2>2, JustReadRaced
      <3> QED BY <1>3, <2>1, <2>2, <3>1
    <2>3. CASE ~reads
      BY <1>1, <1>2, <1>3, <2>1, <2>3, UnwrittenRaced
    <2> QED BY <2>2, <2>3
  <1>9. probe[p].pc # "save" /\ u.mem = mem
    BY <1>1, <1>5
  <1> HIDE DEF u
  <1> QED BY <1>1, <1>7, <1>8, <1>9, KnowsStep

\* A probe moves on with an excuse.
LEMMA ExcusedStep ==
  ASSUME LoginInv, NEW p \in Probe, Active(p), NEW n, Moves(p, n),
         probe' = [probe EXCEPT ![p] = [n EXCEPT !.excused = TRUE]],
         UNCHANGED <<prov, store, access, latest, aged, tool, lost, raced>>
  PROVE  LoginInv'
  <1> DEFINE u == [n EXCEPT !.excused = TRUE]
  <1>1. Knows(p, u) /\ u.pc = n.pc /\ u.src = n.src /\ u.mem = n.mem
    BY ExcusedKnows
  <1>2. probe[p].pc # "save"
    BY DEF Active
  <1>3. raced' \in [Probe -> SUBSET DOMAIN store]
    BY DEF LoginInv, LoginTypesInv, LoginTypeOK
  <1>4. probe' = [probe EXCEPT ![p] = u]
    OBVIOUS
  <1> HIDE DEF u
  <1>5. u.excused = TRUE
    BY ExcusedKnows DEF u
  <1> QED BY <1>1, <1>2, <1>3, <1>4, <1>5, UnwrittenRaced, KnowsStep

LEMMA RefreshFailsInv == ASSUME LoginInv, NEW p \in Probe, RefreshFails(p) PROVE LoginInv'
  <1>1. Active(p)
    BY DEF RefreshFails, Active
  <1> DEFINE w == AfterRefresh("failed", probe[p].why, HeldAge(p))
  <1>2. PICK n \in Goes(p, w) : probe' = [probe EXCEPT ![p] = [n EXCEPT !.excused = TRUE]]
    BY DEF RefreshFails
  <1>3. w \in Where
    BY AfterRefreshWhere
  <1> HIDE DEF w
  <1>4. Moves(p, n)
    BY <1>2, <1>3, GoesMoves
  <1> QED BY <1>1, <1>2, <1>4, ExcusedStep DEF RefreshFails

\* A refusal has a cause: the probe does not have the newest login.
LEMMA RefreshRefusedInv == ASSUME LoginInv, NEW p \in Probe, Refused(p) PROVE LoginInv'
  <1>1. Active(p)
    BY DEF Refused, Active
  <1> DEFINE w == AfterRefresh("refused", probe[p].why, HeldAge(p))
             s == probe[p].src
  <1>2. PICK n \in Goes(p, w) :
          probe' = [probe EXCEPT ![p] = [n EXCEPT !.excused = @ \/ s \in lost \cup raced[p]]]
    BY DEF Refused
  <1>3. w \in Where
    BY AfterRefreshWhere
  <1> HIDE DEF w
  <1>4. Moves(p, n)
    BY <1>2, <1>3, GoesMoves
  <1>5. probe[p].excused = TRUE \/ s \in lost \cup raced[p]
    BY LoginTypes DEF LoginInv, HeldInv, Refused, Held, Outdated
  <1>6. (n.excused \/ s \in lost \cup raced[p]) = TRUE
    <2>1. n.excused = probe[p].excused
      BY <1>4 DEF Moves
    <2> QED BY <1>5, <2>1, Zenon
  <1>7. probe' = [probe EXCEPT ![p] = [n EXCEPT !.excused = TRUE]]
    <2>1. probe' = [probe EXCEPT ![p] =
                      [n EXCEPT !.excused = (n.excused \/ s \in lost \cup raced[p])]]
      BY <1>2, Zenon
    <2> QED BY <1>6, <2>1, Zenon
  <1> QED BY <1>1, <1>4, <1>7, ExcusedStep DEF Refused

LEMMA AnsweredInv ==
  ASSUME LoginInv, NEW p \in Probe, NEW out \in {"ok", "error"}, Answered(p, out)
  PROVE  LoginInv'
  <1> DEFINE u == Ends(p, out)
  <1>1. Active(p)
    BY DEF Answered, Active
  <1>2. Moves(p, u) /\ u.out = out /\ u.remembered = FALSE
    BY EndsMoves
  <1>3. u.pc = "done"
    BY DEF Ends, Idle
  <1>4. probe' = [probe EXCEPT ![p] = u] /\ probe[p].pc # "save"
    BY DEF Answered
  <1> HIDE DEF u
  <1>5. Knows(p, u)
    <2>1. u \in ProbeState
      BY <1>2 DEF Moves
    <2> QED BY <1>1, <1>2, <2>1, MovesKnown DEF Knows
  <1>6. raced \in [Probe -> SUBSET DOMAIN store]
    BY DEF LoginInv, LoginTypesInv, LoginTypeOK
  <1> QED BY <1>3, <1>4, <1>5, <1>6, UnwrittenRaced, KnowsStep DEF Answered

\* A probe that goes on to a refresh with what it holds.
LEMMA AsksRefresh ==
  ASSUME LoginInv, NEW p \in Probe, Active(p), NEW u \in ProbeState, u.pc = "refresh",
         u.src = probe[p].src, u.mem = probe[p].mem, u.out = probe[p].out,
         u.remembered = probe[p].remembered, probe[p].excused = TRUE => u.excused = TRUE,
         probe' = [probe EXCEPT ![p] = u],
         UNCHANGED <<prov, store, access, latest, aged, tool, lost>>,
         raced' \in [Probe -> SUBSET DOMAIN store],
         \A q \in Probe \ {p} : raced'[q] = raced[q],
         Unwritten(p) \subseteq raced'[p], raced[p] \ {probe[p].src} \subseteq raced'[p],
         \/ Held(p) = latest[probe[p].src] \/ probe[p].src \in lost \cup raced'[p]
         \/ u.excused = TRUE
  PROVE  LoginInv'
  <1>1. probe[p] \in ProbeState /\ probe[p].src \in DOMAIN store /\ probe[p].pc # "save"
    BY DEF LoginInv, LoginTypesInv, LoginTypeOK, Active
  <1>2. Knows(p, u)
    <2>1. (probe[p].out = "login" \/ probe[p].remembered) => probe[p].excused
      BY Zenon DEF LoginInv, CauseInv, LoginErrorHasCause
    <2>2. probe[p].excused \in BOOLEAN
      BY <1>1 DEF ProbeState
    <2>3. (u.out = "login" \/ u.remembered) => u.excused
      BY <2>1, <2>2, Zenon
    <2> QED BY <1>1, <2>3 DEF Knows
  <1>3. u.excused # TRUE =>
          \A s \in DOMAIN store : u.mem[s] = latest[s] \/ s \in lost \cup raced'[p]
    <2> SUFFICES ASSUME u.excused # TRUE, NEW s \in DOMAIN store
                 PROVE  probe[p].mem[s] = latest[s] \/ s \in lost \cup raced'[p]
      OBVIOUS
    <2>1. CASE s = probe[p].src
      BY <2>1 DEF Held
    <2>2. CASE s # probe[p].src
      BY <1>1, <2>2 DEF LoginInv, HeldInv, Active
    <2> QED BY <2>1, <2>2
  <1> QED BY <1>1, <1>2, <1>3, KnowsStep

LEMMA RateLimitedInv == ASSUME LoginInv, NEW p \in Probe, RateLimited(p) PROVE LoginInv'
  <1>1. Active(p) /\ probe[p].pc # "save"
    BY DEF RateLimited, Active
  <1>2. raced' = raced /\ raced \in [Probe -> SUBSET DOMAIN store]
    BY DEF RateLimited, LoginInv, LoginTypesInv, LoginTypeOK
  <1>3. UNCHANGED <<prov, store, access, latest, aged, tool, lost>>
    BY DEF RateLimited
  <1>4. CASE probe' = [probe EXCEPT ![p] = Ends(p, "limited")]
    <2> DEFINE u == Ends(p, "limited")
    <2>1. Moves(p, u) /\ u.out = "limited" /\ u.remembered = FALSE
      BY EndsMoves
    <2>2. u.pc = "done"
      BY DEF Ends, Idle
    <2>3. probe' = [probe EXCEPT ![p] = u]
      BY <1>4
    <2> HIDE DEF u
    <2>4. Knows(p, u)
      <3>1. u \in ProbeState
        BY <2>1 DEF Moves
      <3> QED BY <1>1, <2>1, <3>1, MovesKnown DEF Knows
    <2> QED BY <1>1, <1>2, <1>3, <2>2, <2>3, <2>4, UnwrittenRaced, KnowsStep
  <1>5. CASE probe' = [probe EXCEPT ![p] = [probe[p] EXCEPT !.pc = "refresh", !.why = "limited"]]
    <2> DEFINE u == [probe[p] EXCEPT !.pc = "refresh", !.why = "limited"]
    <2>0. probe[p] \in ProbeState
      BY LoginTypes
    <2>1. /\ u \in ProbeState /\ u.pc = "refresh" /\ u.src = probe[p].src
          /\ u.mem = probe[p].mem /\ u.out = probe[p].out
          /\ u.remembered = probe[p].remembered /\ u.excused = probe[p].excused
      BY <2>0 DEF ProbeState, Pc, Why
    <2>2. \/ Held(p) = latest[probe[p].src] \/ probe[p].src \in lost \cup raced[p]
          \/ u.excused = TRUE
      BY <2>1, LoginTypes DEF LoginInv, HeldInv, Held, Outdated, RateLimited
    <2>3. probe' = [probe EXCEPT ![p] = u]
      BY <1>5
    <2> HIDE DEF u
    <2> QED BY <1>1, <1>2, <1>3, <2>1, <2>2, <2>3, UnwrittenRaced, AsksRefresh
  <1> QED BY <1>4, <1>5 DEF RateLimited

LEMMA UsageRefusedInv == ASSUME LoginInv, NEW p \in Probe, UsageRefused(p) PROVE LoginInv'
  <1> DEFINE s == probe[p].src
  <1>1. /\ Active(p) /\ probe[p].pc = "fetch" /\ s \in DOMAIN store
        /\ UNCHANGED <<prov, store, access, latest, aged, tool, lost>>
    BY LoginTypes DEF UsageRefused, Active
  <1>2. PICK u \in retryOnceOnAuth(p) : probe' = [probe EXCEPT ![p] = u]
    BY DEF UsageRefused
  <1>3. /\ raced \in [Probe -> SUBSET DOMAIN store] /\ probe[p] \in ProbeState
        /\ store \in [DOMAIN store -> Token] /\ access \in [DOMAIN store -> Token]
    BY LoginTypes
  <1> DEFINE reads == prov = "codex" /\ ~probe[p].reloaded
  <1>4. IF reads THEN JustRead(p, s) ELSE UNCHANGED raced
    BY DEF UsageRefused
  <1>5. /\ raced' \in [Probe -> SUBSET DOMAIN store]
        /\ \A q \in Probe \ {p} : raced'[q] = raced[q]
        /\ Unwritten(p) \subseteq raced'[p] /\ raced[p] \ {s} \subseteq raced'[p]
        /\ reads => store[s] = latest[s] \/ s \in lost \cup raced'[p]
        /\ ~reads => raced' = raced
    <2>1. CASE reads
      <3>1. JustRead(p, s)
        BY <1>4, <2>1
      <3> QED BY <1>1, <2>1, <3>1, JustReadRaced
    <2>2. CASE ~reads
      BY <1>3, <1>4, <2>2, UnwrittenRaced
    <2> QED BY <2>1, <2>2
  \* Only the script of cursor may hold a refresh token that it has used.
  <1>6. \A t \in DOMAIN store :
          \/ probe[p].mem[t] = latest[t] \/ t \in lost \cup raced[p]
          \/ probe[p].excused = TRUE
          \/ prov = "managed-cursor" /\ probe[p].acc # Held(p)
    BY <1>1 DEF LoginInv, HeldInv, Outdated
  <1> HIDE DEF reads
  \* No further login, with the excuse that is needed.
  <1>7. ASSUME NEW n \in NoLogin(p), u.excused = TRUE, u \in ProbeState, u.pc = n.pc,
               u.src = n.src, u.mem = n.mem
        PROVE  LoginInv'
    <2>1. /\ u.src \in DOMAIN store /\ u.pc # "save"
          /\ \A t \in DOMAIN store : u.mem[t] \in {probe[p].mem[t], store[t], 0}
      BY <1>1, <1>7, NoLoginMoves, MovesKnown
    <2>2. Knows(p, u)
      BY <1>7, <2>1, Zenon DEF Knows
    <2> QED BY <1>1, <1>2, <1>5, <1>7, <2>2, KnowsStep
  <1>8. CASE u \in {[n EXCEPT !.excused = TRUE] : n \in NoLogin(p)}
    <2>1. PICK n \in NoLogin(p) : u = [n EXCEPT !.excused = TRUE]
      BY <1>8
    <2>2. Moves(p, n)
      BY NoLoginMoves
    <2>3. /\ Knows(p, [n EXCEPT !.excused = TRUE]) /\ u.pc = n.pc /\ u.src = n.src
          /\ u.mem = n.mem /\ u.excused = TRUE
      BY <1>1, <2>1, <2>2, ExcusedKnows
    <2>4. u \in ProbeState
      BY <2>1, <2>3, Zenon DEF Knows
    <2> QED BY <1>7, <2>3, <2>4
  <1>9. CASE u \in NoLogin(p) /\ probe[p].remembered
    <2>1. Moves(p, u)
      BY <1>9, NoLoginMoves
    <2>2. u \in ProbeState /\ u.excused = probe[p].excused
      BY <2>1 DEF Moves
    <2>3. probe[p].excused
      BY <1>9, Zenon DEF LoginInv, CauseInv
    <2>4. probe[p].excused \in BOOLEAN
      BY <1>3 DEF ProbeState
    <2>5. u.excused = TRUE
      BY <2>2, <2>3, <2>4, Zenon
    <2> QED BY <1>7, <1>9, <2>2, <2>5
  <1>10. ASSUME NEW w \in {"auth", "again"}, u = [probe[p] EXCEPT !.pc = "refresh", !.why = w],
                prov = "codex", ~reads \/ store[s] = Held(p)
         PROVE  LoginInv'
    <2>1. /\ u \in ProbeState /\ u.pc = "refresh" /\ u.src = probe[p].src
          /\ u.mem = probe[p].mem /\ u.out = probe[p].out
          /\ u.remembered = probe[p].remembered /\ u.excused = probe[p].excused
      BY <1>3, <1>10 DEF ProbeState, Pc, Why
    <2>2. Held(p) = latest[s] \/ s \in lost \cup raced'[p] \/ u.excused = TRUE
      BY <1>1, <1>5, <1>6, <1>10, <2>1 DEF Held
    <2> QED BY <1>1, <1>2, <1>5, <2>1, <2>2, AsksRefresh
  \* It is with its new excuse that the script of cursor refreshes once more.
  <1>11. CASE /\ prov # "codex"
              /\ u = [probe[p] EXCEPT !.pc = "refresh", !.why = "auth",
                                      !.excused = @ \/ probe[p].acc # Held(p)]
    <2> DEFINE e == probe[p].excused \/ probe[p].acc # Held(p)
    <2>1. e \in BOOLEAN
      OBVIOUS
    <2>2. u = [probe[p] EXCEPT !.pc = "refresh", !.why = "auth", !.excused = e]
      BY <1>11
    <2>3. (probe[p].excused = TRUE => e = TRUE) /\ (probe[p].acc # Held(p) => e = TRUE)
      BY Zenon
    <2> HIDE DEF e
    <2>4. /\ u \in ProbeState /\ u.pc = "refresh" /\ u.src = probe[p].src
          /\ u.mem = probe[p].mem /\ u.out = probe[p].out
          /\ u.remembered = probe[p].remembered /\ u.excused = e
      BY <1>3, <2>1, <2>2 DEF ProbeState, Pc, Why
    <2>5. raced' = raced
      BY <1>4, <1>11 DEF reads
    <2>6. Held(p) = latest[s] \/ s \in lost \cup raced'[p] \/ u.excused = TRUE
      BY <1>1, <1>6, <2>3, <2>4, <2>5 DEF Held
    <2> QED BY <1>1, <1>2, <1>5, <2>3, <2>4, <2>6, AsksRefresh
  <1> DEFINE mem == reloadAuthState(p)
  <1>12. mem \in [DOMAIN store -> Token] /\ mem[s] = store[s]
         /\ \A t \in DOMAIN store \ {s} : mem[t] = probe[p].mem[t]
    BY <1>1, <1>3 DEF reloadAuthState, ProbeState
  <1>13. CASE /\ reads
              /\ u = [probe[p] EXCEPT !.mem = mem, !.acc = access[s], !.reloaded = TRUE,
                                      !.remembered = FALSE]
    <2> HIDE DEF mem
    <2>1. /\ u \in ProbeState /\ u.pc = "fetch" /\ u.src = s /\ u.mem = mem
          /\ u.remembered = FALSE /\ u.out = probe[p].out /\ u.excused = probe[p].excused
      BY <1>1, <1>3, <1>12, <1>13 DEF ProbeState
    <2>2. (u.out = "login" \/ u.remembered) => u.excused
      <3>1. probe[p].out = "login" => probe[p].excused
        BY Zenon DEF LoginInv, CauseInv, LoginErrorHasCause
      <3> QED BY <2>1, <3>1, Zenon
    <2>3. Knows(p, u)
      BY <1>1, <1>12, <2>1, <2>2 DEF Knows
    <2>4. u.excused # TRUE =>
            \A t \in DOMAIN store : u.mem[t] = latest[t] \/ t \in lost \cup raced'[p]
      BY <1>5, <1>6, <1>12, <1>13, <2>1 DEF reads
    <2> QED BY <1>1, <1>2, <1>5, <2>3, <2>4, KnowsStep
  <1>14. \/ u \in {[n EXCEPT !.excused = TRUE] : n \in NoLogin(p)}
         \/ u \in NoLogin(p) /\ probe[p].remembered
         \/ /\ prov = "codex"
            /\ u = [probe[p] EXCEPT !.pc = "refresh", !.why = "auth"]
            /\ (~reads \/ mem[s] = Held(p))
         \/ prov = "codex" /\ u = [probe[p] EXCEPT !.pc = "refresh", !.why = "again"] /\ ~reads
         \/ /\ prov # "codex"
            /\ u = [probe[p] EXCEPT !.pc = "refresh", !.why = "auth",
                                    !.excused = @ \/ probe[p].acc # Held(p)]
         \/ /\ reads
            /\ u = [probe[p] EXCEPT !.mem = mem, !.acc = access[s], !.reloaded = TRUE,
                                    !.remembered = FALSE]
    <2> HIDE DEF mem, s
    <2> QED BY <1>2 DEF retryOnceOnAuth, reads, mem, s
  <1> QED BY <1>8, <1>9, <1>10, <1>11, <1>12, <1>13, <1>14

\* The server issues a login: whoever else had the newest has it no longer,
\* and nobody was about to write it.
LEMMA NoSaver ==
  ASSUME LoginInv, NEW s \in DOMAIN store,
         store[s] = latest[s] \/ \E p \in Probe : probe[p].mem[s] = latest[s]
  PROVE  \A q \in Probe : ~Saving(q, s)
  BY DEF LoginInv, SaverInv

LEMMA Issues ==
  ASSUME LoginInv, NEW s \in DOMAIN store, CanIssue
  PROVE  latest[s] + 1 \in Token
  <1>1. CASE 2 \in DOMAIN store
    BY <1>1, LoginTypes, LoginConstants DEF CanIssue, Token
  <1>2. CASE 2 \notin DOMAIN store
    BY <1>2, LoginTypes, LoginConstants DEF CanIssue, Token
  <1> QED BY <1>1, <1>2

\* The server replaces the login of s: what the others know of it is old, and
\* what they wait for at other sources is as before.
LEMMA IssueStep ==
  ASSUME LoginInv, NEW s \in DOMAIN store, CanIssue,
         \A q \in Probe : ~Saving(q, s),
         latest' = [latest EXCEPT ![s] = @ + 1]
  PROVE  /\ latest' \in [DOMAIN store -> Token] /\ latest'[s] = latest[s] + 1
         /\ \A t \in DOMAIN store \ {s} : latest'[t] = latest[t]
         /\ \A t \in DOMAIN store : store[t] <= latest'[t]
         /\ \A q \in Probe : \A t \in DOMAIN store : probe[q].mem[t] <= latest'[t]
         /\ store[s] # latest'[s] /\ \A q \in Probe : probe[q].mem[s] # latest'[s]
         /\ \A q \in Probe : \A t \in DOMAIN store : Saving(q, t) => t # s
  <1>1. /\ latest' \in [DOMAIN store -> Token] /\ latest'[s] = latest[s] + 1
        /\ \A t \in DOMAIN store \ {s} : latest'[t] = latest[t]
    BY LoginTypes, Issues
  <1>2. \A t \in DOMAIN store : latest[t] <= latest'[t] /\ latest'[t] \in Nat
    BY <1>1, LoginTypes
  <1>3. /\ \A t \in DOMAIN store : store[t] <= latest[t]
        /\ \A q \in Probe : \A t \in DOMAIN store : probe[q].mem[t] <= latest[t]
    BY DEF LoginInv, IssuedInv
  <1>4. \A t \in DOMAIN store : store[t] <= latest'[t]
    BY <1>2, <1>3, LoginTypes
  <1>5. \A q \in Probe : \A t \in DOMAIN store : probe[q].mem[t] <= latest'[t]
    BY <1>2, <1>3, LoginTypes
  <1>6. store[s] # latest'[s] /\ \A q \in Probe : probe[q].mem[s] # latest'[s]
    BY <1>1, <1>3, LoginTypes
  <1> QED BY <1>1, <1>4, <1>5, <1>6

LEMMA RefreshedInv == ASSUME LoginInv, NEW p \in Probe, Refreshed(p) PROVE LoginInv'
  <1> DEFINE s == probe[p].src
             Lost == \E n \in Goes(p, AfterRefresh("failed", probe[p].why, HeldAge(p))) :
                        probe' = [probe EXCEPT ![p] = [n EXCEPT !.excused = TRUE]]
  <1>1. /\ Active(p) /\ probe[p].pc = "refresh" /\ s \in DOMAIN store /\ CanIssue
        /\ probe[p].mem[s] = latest[s] /\ latest' = [latest EXCEPT ![s] = @ + 1]
        /\ UNCHANGED <<prov, store, access, aged, tool>>
    BY LoginTypes DEF Refreshed, Active, Held
  <1>2. \/ probe' = [probe EXCEPT ![p] = [@ EXCEPT !.pc = "save", !.acc = latest'[s]]]
           /\ lost' = lost
        \/ Lost /\ lost' = lost \cup {s}
    BY DEF Refreshed
  <1>3. \A q \in Probe : ~Saving(q, s)
    BY <1>1, NoSaver DEF Saving
  <1>4. /\ latest' \in [DOMAIN store -> Token] /\ latest'[s] = latest[s] + 1
        /\ \A t \in DOMAIN store \ {s} : latest'[t] = latest[t]
        /\ \A t \in DOMAIN store : store[t] <= latest'[t]
        /\ \A q \in Probe : \A t \in DOMAIN store : probe[q].mem[t] <= latest'[t]
        /\ store[s] # latest'[s] /\ \A q \in Probe : probe[q].mem[s] # latest'[s]
        /\ \A q \in Probe : \A t \in DOMAIN store : Saving(q, t) => t # s
    BY <1>1, <1>3, IssueStep
  <1>5. /\ raced' \in [Probe -> SUBSET DOMAIN store] /\ raced'[p] = raced[p]
        /\ \A q \in Probe \ {p} : raced'[q] = raced[q] \cup {s}
    BY <1>1, LoginTypes DEF Refreshed, Others
  <1> HIDE DEF s, Lost
  \* What the probe has become.
  <1>6. PICK u \in ProbeState :
          /\ probe' = [probe EXCEPT ![p] = u] /\ u.src \in DOMAIN store
          /\ \A t \in DOMAIN store : u.mem[t] \in {probe[p].mem[t], store[t], 0}
          /\ \/ /\ u.pc = "save" /\ u.src = s /\ u.acc = latest'[s] /\ lost' = lost
                /\ u.mem = probe[p].mem /\ u.excused = probe[p].excused
             \/ u.pc # "save" /\ lost' = lost \cup {s} /\ u.excused = TRUE
          /\ (u.out = "login" \/ u.remembered) => u.excused
    <2>1. CASE probe' = [probe EXCEPT ![p] = [@ EXCEPT !.pc = "save", !.acc = latest'[s]]]
               /\ lost' = lost
      <3> DEFINE u == [probe[p] EXCEPT !.pc = "save", !.acc = latest'[s]]
      <3>1. probe' = [probe EXCEPT ![p] = u]
        BY <2>1
      <3>2. probe[p] \in ProbeState /\ latest'[s] \in Token
        BY <1>1, <1>4, LoginTypes
      <3>3. /\ u \in ProbeState /\ u.pc = "save" /\ u.src = s /\ u.acc = latest'[s]
            /\ u.mem = probe[p].mem /\ u.out = probe[p].out
            /\ u.remembered = probe[p].remembered /\ u.excused = probe[p].excused
        BY <3>2 DEF ProbeState, Pc, s
      <3> HIDE DEF u
      <3>4. (u.out = "login" \/ u.remembered) => u.excused
        <4>1. (probe[p].out = "login" \/ probe[p].remembered) => probe[p].excused
          BY Zenon DEF LoginInv, CauseInv, LoginErrorHasCause
        <4> QED BY <3>3, <4>1, Zenon
      <3> QED BY <1>1, <2>1, <3>1, <3>3, <3>4
    <2>2. CASE Lost /\ lost' = lost \cup {s}
      <3> DEFINE w == AfterRefresh("failed", probe[p].why, HeldAge(p))
      <3>1. PICK n \in Goes(p, w) : probe' = [probe EXCEPT ![p] = [n EXCEPT !.excused = TRUE]]
        BY <2>2 DEF Lost
      <3>2. w \in Where
        BY AfterRefreshWhere
      <3> HIDE DEF w
      <3>3. Moves(p, n)
        BY <3>1, <3>2, GoesMoves
      <3> DEFINE u == [n EXCEPT !.excused = TRUE]
      <3>4. Knows(p, u) /\ u.excused = TRUE
        BY <1>1, <3>3, ExcusedKnows
      <3>5. probe' = [probe EXCEPT ![p] = u]
        BY <3>1
      <3> HIDE DEF u
      <3>6. /\ \A t \in DOMAIN store : u.mem[t] \in {probe[p].mem[t], store[t], 0}
            /\ u \in ProbeState /\ u.src \in DOMAIN store /\ u.pc # "save"
        BY <3>4 DEF Knows
      <3>7. (u.out = "login" \/ u.remembered) => u.excused
        BY <3>4, Zenon
      <3> QED BY <2>2, <3>4, <3>5, <3>6, <3>7
    <2> QED BY <1>2, <2>1, <2>2
  <1>7. /\ probe' \in [Probe -> ProbeState] /\ probe'[p] = u
        /\ \A q \in Probe \ {p} : probe'[q] = probe[q]
        /\ \A t \in DOMAIN store : u.mem[t] <= latest'[t]
        /\ u.mem[s] # latest'[s]
    <2>1. \A t \in DOMAIN store : latest'[t] \in Nat
      BY <1>4, LoginConstants
    <2>2. \A t \in DOMAIN store : u.mem[t] <= latest'[t]
      BY <1>4, <1>6, <2>1
    <2>3. latest'[s] # 0
      BY <1>1, <1>4, LoginTypes
    <2>4. u.mem[s] # latest'[s]
      BY <1>1, <1>4, <1>6, <2>3
    <2>5. /\ probe' \in [Probe -> ProbeState] /\ probe'[p] = u
          /\ \A q \in Probe \ {p} : probe'[q] = probe[q]
      BY <1>6, LoginTypes
    <2> QED BY <2>2, <2>4, <2>5
  <1>8. \A q \in Probe : \A t \in DOMAIN store :
          Saving(q, t)' => (q # p /\ Saving(q, t) /\ t # s) \/ (q = p /\ t = s /\ u.pc = "save")
    BY <1>4, <1>6, <1>7 DEF Saving
  <1>9. \A q \in Probe : \A t \in DOMAIN store : Saving(q, t) => q # p /\ Saving(q, t)'
    BY <1>1, <1>7 DEF Saving
  <1>10. lost \subseteq lost' /\ lost' \subseteq DOMAIN store
    BY <1>1, <1>6, LoginTypes
  <1>11. LoginTypesInv'
    <2>1. ProbeState' = ProbeState /\ DOMAIN store' = DOMAIN store
      BY <1>1 DEF ProbeState
    <2>2. LoginTypeOK'
      BY <1>1, <1>4, <1>5, <1>7, <1>10, <2>1, Zenon DEF LoginInv, LoginTypesInv, LoginTypeOK
    <2>3. \A q \in Probe : probe'[q].src \in DOMAIN store
      BY <1>6, <1>7, LoginTypes
    <2> QED BY <2>1, <2>2, <2>3, LoginTypes, Zenon DEF LoginTypesInv
  <1>12. IssuedInv'
    BY <1>1, <1>4, <1>6, <1>7 DEF IssuedInv
  <1>13. SaverInv'
    <2> SUFFICES ASSUME NEW q \in Probe, NEW t \in DOMAIN store, Saving(q, t)'
                 PROVE  /\ probe'[q].acc = latest'[t] /\ store[t] # latest'[t]
                        /\ \A r \in Probe : probe'[r].mem[t] # latest'[t]
                        /\ \A r \in Probe \ {q} : ~Saving(r, t)'
      BY <1>1 DEF SaverInv
    <2>1. CASE q # p /\ Saving(q, t) /\ t # s
      <3>1. /\ probe[q].acc = latest[t] /\ store[t] # latest[t]
            /\ \A r \in Probe : probe[r].mem[t] # latest[t]
            /\ \A r \in Probe \ {q} : ~Saving(r, t)
        BY <2>1 DEF LoginInv, SaverInv
      <3>2. latest[t] # 0
        BY <3>1, LoginTypes DEF LoginInv, IssuedInv
      <3>3. u.mem[t] # latest[t]
        BY <1>6, <2>1, <3>1, <3>2
      <3> QED BY <1>4, <1>7, <1>8, <2>1, <3>1, <3>3
    <2>2. CASE q = p /\ t = s /\ u.pc = "save"
      BY <1>4, <1>6, <1>7, <1>8, <2>2
    <2> QED BY <1>8, <2>1, <2>2
  <1>14. RacedInv'
    <2> SUFFICES ASSUME NEW q \in Probe, NEW r \in Probe, NEW t \in DOMAIN store, q # r,
                        Saving(q, t)'
                 PROVE  t \in raced'[r]
      BY <1>1 DEF RacedInv
    <2>1. CASE q # p /\ Saving(q, t)
      <3>1. t \in raced[r]
        BY <2>1 DEF LoginInv, RacedInv
      <3> QED BY <1>5, <3>1
    <2>2. CASE q = p /\ t = s
      BY <1>5, <2>2
    <2> QED BY <1>8, <2>1, <2>2
  <1>15. HeldInv'
    <2> SUFFICES ASSUME NEW q \in Probe, NEW t \in DOMAIN store,
                        probe'[q].pc \notin {"idle", "done"}, probe'[q].excused # TRUE
                 PROVE  \/ probe'[q].mem[t] = latest'[t] \/ t \in lost' \cup raced'[q]
                        \/ t = probe'[q].src /\ (probe'[q].pc = "save" \/ Outdated(q)')
      BY <1>1 DEF HeldInv
    <2>1. CASE q # p
      <3>1. /\ probe'[q] = probe[q] /\ Outdated(q)' = Outdated(q)
            /\ raced'[q] = raced[q] \cup {s}
        BY <1>1, <1>5, <1>7, <2>1 DEF Outdated, Held
      <3>2. \/ probe[q].mem[t] = latest[t] \/ t \in lost \cup raced[q]
            \/ t = probe[q].src /\ (probe[q].pc = "save" \/ Outdated(q))
        BY <3>1 DEF LoginInv, HeldInv
      <3> QED BY <1>4, <1>10, <3>1, <3>2
    <2>2. CASE q = p
      <3>1. u.pc = "save" /\ u.src = s /\ u.mem = probe[p].mem /\ probe[p].excused # TRUE
        BY <1>6, <1>7, <2>2
      <3>2. t # s => probe[p].mem[t] = latest[t] \/ t \in lost \cup raced[p]
        BY <1>1, <3>1 DEF LoginInv, HeldInv, s
      <3> QED BY <1>4, <1>5, <1>7, <1>10, <2>2, <3>1, <3>2
    <2> QED BY <2>1, <2>2
  <1>16. CauseInv'
    <2>1. u.out = "login" => u.excused
      BY <1>6, Zenon
    <2>2. u.remembered => u.excused
      BY <1>6, Zenon
    <2> QED BY <1>7, <2>1, <2>2, Zenon DEF LoginInv, CauseInv, LoginErrorHasCause
  <1>17. LoginIsKept'
    <2> SUFFICES ASSUME NEW t \in DOMAIN store, store[t] # latest'[t], t \notin lost'
                 PROVE  \E q \in Probe : Saving(q, t)'
      BY <1>1 DEF LoginIsKept
    <2>1. CASE t = s
      <3>1. Saving(p, t)'
        BY <1>6, <1>7, <2>1 DEF Saving
      <3> QED BY <3>1
    <2>2. CASE t # s
      BY <1>4, <1>9, <1>10, <2>2 DEF LoginInv, LoginIsKept
    <2> QED BY <2>1, <2>2
  <1>18. CopyInv'
    <2> SUFFICES ASSUME prov = "managed-cursor"
                 PROVE  /\ DOMAIN store = {1} /\ tool <= latest'[1]
                        /\ \A q \in Probe : Saving(q, 1)' => tool < latest'[1]
      BY <1>1 DEF CopyInv
    <2>1. DOMAIN store = {1} /\ tool <= latest[1]
      BY DEF LoginInv, CopyInv
    <2>2. s = 1 /\ latest'[1] = latest[1] + 1
      BY <1>1, <1>4, <2>1
    <2> QED BY <2>1, <2>2, LoginTypes, LoginConstants
  <1> QED BY <1>11, <1>12, <1>13, <1>14, <1>15, <1>16, <1>17, <1>18 DEF LoginInv

LEMMA WrittenType ==
  ASSUME LoginInv, NEW p \in Probe, NEW tokens \in [DOMAIN store -> Token]
  PROVE  /\ Written(p, tokens) \in [DOMAIN store -> Token]
         /\ Written(p, tokens)[probe[p].src] = probe[p].acc
         /\ \A t \in DOMAIN store \ {probe[p].src} :
              Written(p, tokens)[t] \in {tokens[t], probe[p].mem[t]}
  <1>1. /\ probe[p].mem \in [DOMAIN store -> Token] /\ probe[p].acc \in Token
        /\ probe[p].src \in DOMAIN store
    BY LoginTypes DEF ProbeState
  <1> QED BY <1>1 DEF Written

LEMMA KnownTokensType ==
  ASSUME LoginInv, NEW p \in Probe
  PROVE  /\ KnownTokens(p) \in [DOMAIN store -> Token]
         /\ \A t \in DOMAIN store \ {probe[p].src} : KnownTokens(p)[t] = probe[p].mem[t]
         /\ \/ KnownTokens(p)[probe[p].src] = probe[p].acc
            \/ prov \in {"cursor", "managed-cursor"} /\ KnownTokens(p) = probe[p].mem
  <1>1. /\ probe[p].mem \in [DOMAIN store -> Token] /\ probe[p].acc \in Token
        /\ probe[p].src \in DOMAIN store
    BY LoginTypes DEF ProbeState
  <1> QED BY <1>1 DEF KnownTokens

\* A write puts the newest login where it belongs, or counts as lost, as what it
\* overwrites beside that.
LEMMA SaveCredentialsInv == ASSUME LoginInv, NEW p \in Probe, SaveCredentials(p) PROVE LoginInv'
  <1> DEFINE s == probe[p].src
             mem == KnownTokens(p)
             u == [probe[p] EXCEPT !.pc = "fetch", !.mem = mem]
  <1>1. /\ probe[p].pc = "save" /\ Saving(p, s) /\ s \in DOMAIN store
        /\ UNCHANGED <<prov, latest, aged, tool, raced>>
        /\ probe[p] \in ProbeState
    BY LoginTypes DEF SaveCredentials, Saving
  <1>2. probe' = [probe EXCEPT ![p] = u]
    BY DEF SaveCredentials
  <1>3. /\ mem \in [DOMAIN store -> Token]
        /\ \A t \in DOMAIN store \ {s} : mem[t] = probe[p].mem[t]
        /\ \/ mem[s] = probe[p].acc
           \/ prov \in {"cursor", "managed-cursor"} /\ mem = probe[p].mem
    BY KnownTokensType
  <1> HIDE DEF mem
  <1>4. /\ u \in ProbeState /\ u.pc = "fetch" /\ u.src = s /\ u.mem = mem
        /\ u.acc = probe[p].acc /\ u.out = probe[p].out
        /\ u.remembered = probe[p].remembered /\ u.excused = probe[p].excused
    BY <1>1, <1>3 DEF ProbeState, Pc
  <1> HIDE DEF u, s
  <1>5. /\ probe' \in [Probe -> ProbeState] /\ probe'[p] = u
        /\ \A q \in Probe \ {p} : probe'[q] = probe[q]
    BY <1>2, <1>4, LoginTypes
  <1>6. /\ probe[p].acc = latest[s] /\ store[s] # latest[s]
        /\ \A q \in Probe : probe[q].mem[s] # latest[s]
        /\ \A q \in Probe : \A t \in DOMAIN store : q # p /\ Saving(q, t) =>
             t # s /\ store[t] # latest[t] /\ probe[p].mem[t] # latest[t]
    BY <1>1 DEF LoginInv, SaverInv
  <1>7. /\ store' \in [DOMAIN store -> Token] /\ access' \in [DOMAIN store -> Token]
        /\ lost \subseteq lost' /\ lost' \subseteq DOMAIN store
        /\ \A t \in DOMAIN store \ {s} : /\ store'[t] \in {store[t], probe[p].mem[t]}
                                         /\ store'[t] = store[t] \/ t \in lost'
        /\ \/ store'[s] = latest[s]
           \/ store'[s] = store[s] /\ s \in lost'
        /\ prov = "cursor" => s \in lost'
    <2>1. /\ store \in [DOMAIN store -> Token] /\ access \in [DOMAIN store -> Token]
          /\ lost \subseteq DOMAIN store
      BY LoginTypes
    <2>2. CASE /\ access' = Written(p, access)
               /\ store' = IF OnlyAccessIsKept THEN store ELSE Written(p, store)
               /\ lost' = lost \cup {t \in DOMAIN store \ {s} : store'[t] # store[t]}
                               \cup (IF OnlyAccessIsKept THEN {s} ELSE {})
      <3>1. access' \in [DOMAIN store -> Token]
        BY <2>1, <2>2, WrittenType
      <3>2. lost \subseteq lost' /\ lost' \subseteq DOMAIN store
        BY <1>1, <2>1, <2>2
      <3>3. CASE prov = "cursor"
        BY <1>1, <2>1, <2>2, <3>1, <3>2, <3>3 DEF OnlyAccessIsKept
      <3>4. CASE prov # "cursor"
        <4>1. /\ store' \in [DOMAIN store -> Token] /\ store'[s] = latest[s]
              /\ \A t \in DOMAIN store \ {s} : store'[t] \in {store[t], probe[p].mem[t]}
          BY <1>6, <2>1, <2>2, <3>4, WrittenType DEF s, OnlyAccessIsKept
        <4> QED BY <2>2, <3>1, <3>2, <3>4, <4>1
      <3> QED BY <3>3, <3>4
    <2>3. CASE lost' = lost \cup {s} /\ store' = store /\ access' = access
      BY <1>1, <2>1, <2>3
    <2> QED BY <2>2, <2>3 DEF SaveCredentials, s
  <1>8. DOMAIN store' = DOMAIN store /\ ProbeState' = ProbeState
    BY <1>7 DEF ProbeState
  <1>9. \A q \in Probe : \A t \in DOMAIN store : Saving(q, t)' <=> q # p /\ Saving(q, t)
    BY <1>4, <1>5 DEF Saving
  <1>10. LoginTypesInv'
    <2>1. LoginTypeOK'
      BY <1>1, <1>5, <1>7, <1>8, Zenon DEF LoginInv, LoginTypesInv, LoginTypeOK
    <2>2. \A q \in Probe : probe'[q].src \in DOMAIN store
      BY <1>1, <1>4, <1>5, LoginTypes
    <2> QED BY <1>8, <2>1, <2>2, LoginTypes, Zenon DEF LoginTypesInv
  <1>11. IssuedInv'
    <2>1. /\ \A t \in DOMAIN store : store[t] <= latest[t] /\ latest[t] \in Nat
          /\ \A q \in Probe : \A t \in DOMAIN store : probe[q].mem[t] <= latest[t]
      BY LoginTypes DEF LoginInv, IssuedInv
    <2>2. \A t \in DOMAIN store : store'[t] <= latest[t]
      BY <1>7, <2>1
    <2>3. \A t \in DOMAIN store : mem[t] <= latest[t]
      BY <1>3, <1>6, <2>1
    <2>4. \A q \in Probe : \A t \in DOMAIN store : probe'[q].mem[t] <= latest[t]
      BY <1>4, <1>5, <2>1, <2>3
    <2> QED BY <1>1, <1>8, <2>2, <2>4 DEF IssuedInv
  <1>12. SaverInv'
    <2> SUFFICES ASSUME NEW q \in Probe, NEW t \in DOMAIN store, q # p, Saving(q, t)
                 PROVE  /\ probe'[q].acc = latest[t] /\ store'[t] # latest[t]
                        /\ \A r \in Probe : probe'[r].mem[t] # latest[t]
                        /\ \A r \in Probe \ {q} : ~Saving(r, t)'
      BY <1>1, <1>8, <1>9 DEF SaverInv
    <2>1. /\ probe[q].acc = latest[t]
          /\ \A r \in Probe : probe[r].mem[t] # latest[t]
          /\ \A r \in Probe \ {q} : ~Saving(r, t)
      BY DEF LoginInv, SaverInv
    <2>2. t # s /\ store'[t] # latest[t]
      BY <1>6, <1>7
    <2> QED BY <1>3, <1>4, <1>5, <1>9, <2>1, <2>2
  <1>13. RacedInv'
    BY <1>1, <1>8, <1>9 DEF LoginInv, RacedInv
  <1>14. HeldInv'
    <2> SUFFICES ASSUME NEW q \in Probe, NEW t \in DOMAIN store,
                        probe'[q].pc \notin {"idle", "done"}, probe'[q].excused # TRUE
                 PROVE  \/ probe'[q].mem[t] = latest[t] \/ t \in lost' \cup raced[q]
                        \/ t = probe'[q].src /\ (probe'[q].pc = "save" \/ Outdated(q)')
      BY <1>1, <1>8 DEF HeldInv
    <2>1. CASE q # p
      <3>1. probe'[q] = probe[q] /\ Outdated(q)' = Outdated(q)
        BY <1>1, <1>5, <2>1 DEF Outdated, Held
      <3>2. \/ probe[q].mem[t] = latest[t] \/ t \in lost \cup raced[q]
            \/ t = probe[q].src /\ (probe[q].pc = "save" \/ Outdated(q))
        BY <3>1 DEF LoginInv, HeldInv
      <3> QED BY <1>7, <3>1, <3>2
    <2>2. CASE q = p /\ t # s
      <3>1. probe[p].mem[t] = latest[t] \/ t \in lost \cup raced[p]
        BY <1>1, <1>4, <1>5, <2>2 DEF LoginInv, HeldInv, s
      <3> QED BY <1>3, <1>4, <1>5, <1>7, <2>2, <3>1
    <2>3. CASE q = p /\ t = s
      <3>1. CASE mem[s] = probe[p].acc
        BY <1>4, <1>5, <1>6, <2>3, <3>1
      <3>2. CASE prov = "cursor"
        BY <1>7, <2>3, <3>2
      <3>3. CASE prov = "managed-cursor" /\ mem = probe[p].mem
        BY <1>1, <1>4, <1>5, <1>6, <2>3, <3>3 DEF Outdated, Held
      <3> QED BY <1>3, <3>1, <3>2, <3>3
    <2> QED BY <2>1, <2>2, <2>3
  <1>15. CauseInv'
    BY <1>4, <1>5, Zenon DEF LoginInv, CauseInv, LoginErrorHasCause
  <1>16. CopyInv'
    BY <1>1, <1>8, <1>9 DEF LoginInv, CopyInv
  <1>17. LoginIsKept'
    <2> SUFFICES ASSUME NEW t \in DOMAIN store, store'[t] # latest[t], t \notin lost'
                 PROVE  \E q \in Probe : Saving(q, t)'
      BY <1>1, <1>8 DEF LoginIsKept
    <2>1. t # s /\ store'[t] = store[t] /\ t \notin lost
      BY <1>7
    <2>2. PICK q \in Probe : Saving(q, t)
      BY <2>1 DEF LoginInv, LoginIsKept
    <2>3. q # p
      BY <2>1, <2>2 DEF Saving, s
    <2> QED BY <1>9, <2>2, <2>3
  <1> QED BY <1>10, <1>11, <1>12, <1>13, <1>14, <1>15, <1>16, <1>17 DEF LoginInv

\* The tool refreshes only what is the newest, so that nobody is about to
\* write that login, and every probe is overtaken.
LEMMA ToolRefreshesInv ==
  ASSUME LoginInv, NEW s \in DOMAIN store, ToolRefreshes(s) PROVE LoginInv'
  <1>1. /\ CanIssue /\ latest' = [latest EXCEPT ![s] = @ + 1]
        /\ tool < MaxTool /\ tool' = tool + 1
        /\ raced' = [q \in Probe |-> raced[q] \cup {s}]
        /\ UNCHANGED <<prov, aged, probe>>
    BY DEF ToolRefreshes
  <1>2. \A q \in Probe : ~Saving(q, s)
    <2>1. CASE store[s] = latest[s]
      BY <2>1, NoSaver
    <2>2. CASE prov = "managed-cursor" /\ latest[s] = tool
      <3>1. s = 1
        BY <2>2 DEF LoginInv, CopyInv
      <3> QED BY <2>2, <3>1, LoginTypes DEF LoginInv, CopyInv
    <2> QED BY <2>1, <2>2 DEF ToolRefreshes
  <1>3. /\ latest' \in [DOMAIN store -> Token] /\ latest'[s] = latest[s] + 1
        /\ \A t \in DOMAIN store \ {s} : latest'[t] = latest[t]
        /\ \A t \in DOMAIN store : store[t] <= latest'[t]
        /\ \A q \in Probe : \A t \in DOMAIN store : probe[q].mem[t] <= latest'[t]
        /\ \A q \in Probe : \A t \in DOMAIN store : Saving(q, t) => t # s
    BY <1>1, <1>2, IssueStep
  <1>4. /\ store' \in [DOMAIN store -> Token] /\ access' \in [DOMAIN store -> Token]
        /\ \A t \in DOMAIN store \ {s} : store'[t] = store[t]
        /\ store'[s] = latest'[s] \/ (store' = store /\ s \in lost')
        /\ lost \subseteq lost' /\ lost' \subseteq DOMAIN store
    <2>1. /\ store \in [DOMAIN store -> Token] /\ access \in [DOMAIN store -> Token]
          /\ lost \subseteq DOMAIN store /\ latest'[s] \in Token
      BY <1>3, LoginTypes
    <2>2. CASE /\ store' = [store EXCEPT ![s] = latest'[s]]
               /\ access' = [access EXCEPT ![s] = latest'[s]] /\ lost' = lost
      BY <2>1, <2>2
    <2>3. CASE lost' = lost \cup {s} /\ store' = store /\ access' = access
      BY <2>1, <2>3
    <2> QED BY <2>2, <2>3 DEF ToolRefreshes
  <1>5. /\ raced' \in [Probe -> SUBSET DOMAIN store]
        /\ \A q \in Probe : raced'[q] = raced[q] \cup {s}
    BY <1>1, LoginTypes
  <1>6. DOMAIN store' = DOMAIN store /\ ProbeState' = ProbeState
    BY <1>4 DEF ProbeState
  <1>7. tool' \in 0..MaxTool
    BY <1>1, LoginTypes, LoginConstants
  <1>8. \A q \in Probe : \A t \in DOMAIN store : Saving(q, t)' <=> Saving(q, t)
    BY <1>1 DEF Saving
  <1>9. LoginTypesInv'
    <2>1. LoginTypeOK'
      BY <1>1, <1>3, <1>4, <1>5, <1>6, <1>7, Zenon DEF LoginInv, LoginTypesInv, LoginTypeOK
    <2> QED BY <1>1, <1>6, <2>1, LoginTypes, Zenon DEF LoginTypesInv
  <1>10. IssuedInv'
    <2>1. store'[s] <= latest'[s]
      <3>1. latest'[s] \in Nat
        BY <1>3, LoginTypes
      <3> QED BY <1>3, <1>4, <3>1
    <2>2. \A t \in DOMAIN store : store'[t] <= latest'[t]
      BY <1>3, <1>4, <2>1
    <2>3. \A q \in Probe : \A t \in DOMAIN store : probe'[q].mem[t] <= latest'[t]
      BY <1>1, <1>3
    <2> QED BY <1>6, <2>2, <2>3, Zenon DEF IssuedInv
  <1>11. SaverInv'
    BY <1>1, <1>3, <1>4, <1>6, <1>8 DEF LoginInv, SaverInv
  <1>12. RacedInv'
    BY <1>5, <1>6, <1>8 DEF LoginInv, RacedInv
  <1>13. HeldInv'
    <2> SUFFICES ASSUME NEW q \in Probe, NEW t \in DOMAIN store,
                        probe[q].pc \notin {"idle", "done"}, probe[q].excused # TRUE
                 PROVE  \/ probe[q].mem[t] = latest'[t] \/ t \in lost' \cup raced'[q]
                        \/ t = probe[q].src /\ (probe[q].pc = "save" \/ Outdated(q)')
      BY <1>1, <1>6 DEF HeldInv
    <2>1. Outdated(q)' = Outdated(q)
      BY <1>1 DEF Outdated, Held
    <2>2. \/ probe[q].mem[t] = latest[t] \/ t \in lost \cup raced[q]
          \/ t = probe[q].src /\ (probe[q].pc = "save" \/ Outdated(q))
      BY DEF LoginInv, HeldInv
    <2> QED BY <1>3, <1>4, <1>5, <2>1, <2>2
  <1>14. CauseInv'
    BY <1>1, Zenon DEF LoginInv, CauseInv, LoginErrorHasCause
  <1>15. CopyInv'
    <2> SUFFICES ASSUME prov = "managed-cursor"
                 PROVE  /\ DOMAIN store = {1} /\ tool' <= latest'[1]
                        /\ \A q \in Probe : ~Saving(q, 1)'
      BY <1>1, <1>6 DEF CopyInv
    <2>1. DOMAIN store = {1} /\ tool <= latest[1]
      BY DEF LoginInv, CopyInv
    <2>2. s = 1 /\ latest'[1] = latest[1] + 1
      BY <1>3, <2>1
    <2> QED BY <1>1, <1>2, <1>8, <2>1, <2>2, LoginTypes, LoginConstants
  <1>16. LoginIsKept'
    <2> SUFFICES ASSUME NEW t \in DOMAIN store
                 PROVE  store'[t] = latest'[t] \/ t \in lost' \/ \E q \in Probe : Saving(q, t)'
      BY <1>1, <1>6 DEF LoginIsKept
    <2>1. CASE t = s
      BY <1>4, <2>1
    <2>2. CASE t # s
      <3>1. store'[t] = store[t] /\ latest'[t] = latest[t]
        BY <1>3, <1>4, <2>2
      <3> QED BY <1>4, <1>8, <3>1 DEF LoginInv, LoginIsKept
    <2> QED BY <2>1, <2>2
  <1> QED BY <1>9, <1>10, <1>11, <1>12, <1>13, <1>14, <1>15, <1>16 DEF LoginInv

LEMMA AgesInv ==
  ASSUME LoginInv, aged' \in [DOMAIN store -> [upto : Token, kind : Age]],
         UNCHANGED <<prov, store, access, latest, tool, probe, lost, raced>>
  PROVE  LoginInv'
  <1>1. LoginTypesInv'
    BY Zenon DEF LoginInv, LoginTypesInv, LoginTypeOK, ProbeState
  <1>2. IssuedInv' /\ RacedInv' /\ CauseInv' /\ LoginIsKept'
    BY Zenon DEF LoginInv, IssuedInv, RacedInv, CauseInv, LoginIsKept, LoginErrorHasCause, Saving
  <1>3. SaverInv' /\ CopyInv'
    BY DEF LoginInv, SaverInv, CopyInv, Saving
  <1>4. HeldInv'
    BY Zenon DEF LoginInv, HeldInv, Outdated, Held
  <1> QED BY <1>1, <1>2, <1>3, <1>4 DEF LoginInv

LEMMA GrowsOldInv == ASSUME LoginInv, NEW s \in DOMAIN store, GrowsOld(s) PROVE LoginInv'
  <1>1. aged' \in [DOMAIN store -> [upto : Token, kind : Age]]
    BY LoginTypes DEF GrowsOld
  <1> QED BY <1>1, AgesInv DEF GrowsOld

LEMMA LoginNextInv == LoginInv /\ [LoginNext]_loginVars => LoginInv'
  <1> SUFFICES ASSUME LoginInv, [LoginNext]_loginVars PROVE LoginInv'
      OBVIOUS
  <1>1. ASSUME NEW p \in Probe, Load(p) \/ Check(p) \/ Refreshed(p) \/ Refused(p) \/ RefreshFails(p)
        PROVE  LoginInv'
    BY <1>1, LoadInv, LoginCheckInv, RefreshedInv, RefreshRefusedInv, RefreshFailsInv
  <1>2. ASSUME NEW p \in Probe,
               SaveCredentials(p) \/ Answered(p, "ok") \/ Answered(p, "error")
                 \/ RateLimited(p) \/ UsageRefused(p)
        PROVE  LoginInv'
    BY <1>2, SaveCredentialsInv, AnsweredInv, RateLimitedInv, UsageRefusedInv
  <1>3. ASSUME NEW s \in DOMAIN store, ToolRefreshes(s) \/ GrowsOld(s) PROVE LoginInv'
    BY <1>3, ToolRefreshesInv, GrowsOldInv
  <1>4. CASE UNCHANGED loginVars
    <2>1. /\ UNCHANGED <<prov, store, access, latest, tool, probe, lost, raced>>
          /\ aged' \in [DOMAIN store -> [upto : Token, kind : Age]]
      BY <1>4, LoginTypes DEF loginVars
    <2> QED BY <2>1, AgesInv
  <1> QED BY <1>1, <1>2, <1>3, <1>4 DEF LoginNext

\* However many probes overlap with each other and with the provider's own
\* tool, what is kept at a source is the login the server accepts, unless it
\* is about to be written or was lost on the way, as it always is when the
\* script refreshes Cursor's own login; and a probe asks for a login only for a
\* cause.
THEOREM LoginsAreKept == LoginSpec => []LoginKept
  <1>1. LoginInv => LoginKept
    BY DEF LoginInv, CauseInv, LoginKept
  <1> QED BY LoginInitInv, LoginNextInv, <1>1, PTL DEF LoginSpec

(***************************************************************************)
(* ProviderProbes: whatever figures a service reports, the runtime accepts *)
(* the lines that a script makes of them.  A script puts its lines together*)
(* from lists, so what is shown of a script is that its list is Sound:     *)
(* every line of it is one that the runtime takes.                         *)
(***************************************************************************)
\* What a line of script p has to be.
Takes(p, l) ==
  \/ Accepted(l)
  \/ l.limit = 0 /\ p \in PassesZero
  \/ l.used = Missing /\ p \in PassesMissing
  \/ p = "mock"

Members(s) == {s[i] : i \in DOMAIN s}

\* A list of such lines.
Sound(p, s) == s \in Seq(Members(s)) /\ \A i \in DOMAIN s : Takes(p, s[i])

LEMMA SoundNone == ASSUME NEW p PROVE Sound(p, <<>>)
<1>1. <<>> \in Seq(Members(<<>>)) /\ DOMAIN <<>> = {}
  OBVIOUS
<1> QED
  BY <1>1 DEF Sound

LEMMA SoundOne == ASSUME NEW p, NEW l, Takes(p, l) PROVE Sound(p, <<l>>)
<1>1. <<l>> \in Seq({l}) /\ DOMAIN <<l>> = {1} /\ <<l>>[1] = l
  OBVIOUS
<1>2. Members(<<l>>) = {l}
  BY <1>1 DEF Members
<1> QED
  BY <1>1, <1>2 DEF Sound

LEMMA SeqOfMembers ==
  ASSUME NEW T, NEW s \in Seq(T)
  PROVE  s \in Seq(Members(s)) /\ DOMAIN s = 1..Len(s) /\ Len(s) \in Nat
<1>1. DOMAIN s = 1..Len(s) /\ Len(s) \in Nat /\ \A i \in DOMAIN s : s[i] \in Members(s)
  BY DEF Members
<1>2. s = [i \in 1..Len(s) |-> s[i]]
  BY <1>1
<1>3. [i \in 1..Len(s) |-> s[i]] \in [1..Len(s) -> Members(s)]
  BY <1>1
<1> QED
  BY <1>1, <1>2, <1>3

LEMMA SoundConcat ==
  ASSUME NEW p, NEW s, NEW t, Sound(p, s), Sound(p, t)
  PROVE  Sound(p, s \o t)
<1> DEFINE T == Members(s) \cup Members(t)
           u == s \o t
<1>1. s \in Seq(T) /\ t \in Seq(T)
  <2>1. \A i \in DOMAIN s : s[i] \in T
    BY DEF Members
  <2>2. \A i \in DOMAIN t : t[i] \in T
    BY DEF Members
  <2>3. \A S, R : S \subseteq R => Seq(S) \subseteq Seq(R)
    OBVIOUS
  <2> QED
    BY <2>3 DEF Sound
<1> HIDE DEF T
<1>2. /\ u \in Seq(T) /\ Len(u) = Len(s) + Len(t) /\ Len(s) \in Nat /\ Len(t) \in Nat
      /\ \A i \in 1..Len(u) : u[i] = IF i <= Len(s) THEN s[i] ELSE t[i - Len(s)]
      /\ DOMAIN s = 1..Len(s) /\ DOMAIN t = 1..Len(t) /\ DOMAIN u = 1..Len(u)
  BY <1>1
<1> HIDE DEF u
<1>3. u \in Seq(Members(u))
  BY <1>2, SeqOfMembers
<1>4. ASSUME NEW i \in DOMAIN u PROVE Takes(p, u[i])
  <2>1. CASE i <= Len(s)
    <3>1. i \in DOMAIN s /\ u[i] = s[i]
      BY <1>2, <2>1
    <3> QED
      BY <3>1 DEF Sound
  <2>2. CASE ~(i <= Len(s))
    <3>1. i - Len(s) \in DOMAIN t /\ u[i] = t[i - Len(s)]
      BY <1>2, <2>2
    <3> QED
      BY <3>1 DEF Sound
  <2> QED
    BY <2>1, <2>2
<1> QED
  BY <1>3, <1>4 DEF Sound, u

LEMMA SoundWhen ==
  ASSUME NEW p, NEW c, NEW l, c => Takes(p, l)
  PROVE  Sound(p, When(c, l))
BY SoundNone, SoundOne, Zenon DEF When

LEMMA PlainTakes ==
  ASSUME NEW p, NEW label
  PROVE  Takes(p, Text(label)) /\ Takes(p, Badge(label))
BY DEF Takes, Accepted, Text, Badge, Line

LEMMA SoundPlain ==
  ASSUME NEW p, NEW label
  PROVE  /\ Sound(p, <<Text(label)>>) /\ Sound(p, <<Badge(label)>>)
         /\ \A c : Sound(p, When(c, Text(label))) /\ Sound(p, When(c, Badge(label)))
BY SoundOne, SoundWhen, PlainTakes, Zenon

LEMMA SoundStatus ==
  ASSUME NEW p, NEW s, Sound(p, s)
  PROVE  Sound(p, OrStatus(s))
BY SoundPlain, Zenon DEF OrStatus

LEMMA PercentTakes ==
  ASSUME NEW p, NEW label, NEW n \in Nat
  PROVE  Takes(p, Percent(label, n))
BY DEF Takes, Accepted, Percent, Progress, Line

LEMMA ProgressTakes ==
  ASSUME NEW p, NEW label, NEW n \in Nat, NEW limit \in Nat, NEW format, format # "percent",
         limit > 0 \/ p \in PassesZero
  PROVE  Takes(p, Progress(label, n, limit, format))
<1> limit > 0 \/ limit = 0
  OBVIOUS
<1> QED
  BY DEF Takes, Accepted, Progress, Line

LEMMA SoundPercents ==
  ASSUME NEW p, NEW label, NEW reported
  PROVE  Sound(p, PercentOf(label, reported))
<1>1. 50 \in Nat
  OBVIOUS
<1> QED
  BY <1>1, PercentTakes, SoundWhen, Zenon DEF PercentOf

LEMMA ClampFacts ==
  ASSUME NEW n \in Int, NEW low \in Int, NEW high \in Int, low <= high
  PROVE  Clamp(n, low, high) \in Int /\ low <= Clamp(n, low, high) /\ Clamp(n, low, high) <= high
BY DEF Clamp

LEMMA ClampNat ==
  ASSUME NEW n \in Int, NEW high \in Nat
  PROVE  Clamp(n, 0, high) \in 0..high
BY DEF Clamp

LEMMA ShareNat ==
  ASSUME NEW m \in Nat, NEW n \in Nat, n > 0
  PROVE  m \div n \in Nat
OBVIOUS

LEMMA SoundOutcome ==
  ASSUME NEW p
  PROVE  /\ \A kind : Sound(p, Thrown(kind).lines)
         /\ \A s : Sound(p, s) => Sound(p, Lines(s).lines)
BY SoundNone, Zenon DEF Thrown, Lines

-----------------------------------------------------------------------------
\* The figures are natural numbers where they are reported.
LEMMA AmountIsNat ==
  ASSUME NEW x \in Some(Amounts)
  PROVE  x \in Int /\ (x # Missing => x \in Nat) /\ (x >= 0 => x \in Nat) /\ (x > 0 => x \in Nat)
BY FigureAssumption DEF FigureAssumption, Some, Missing

LEMMA LimitIsNat ==
  ASSUME NEW x \in Some(Limits)
  PROVE  x \in Int /\ (x # Missing => x \in Nat) /\ (x >= 0 => x \in Nat) /\ (x > 0 => x \in Nat)
BY FigureAssumption DEF FigureAssumption, Some, Missing

LEMMA PartIsNat ==
  ASSUME NEW x \in Some(Parts)
  PROVE  x \in Int /\ (x # Missing => x \in Nat)
BY FigureAssumption DEF FigureAssumption, Some, Missing

LEMMA FigureIsNat ==
  ASSUME NEW x \in Some(Amounts \cup Limits)
  PROVE  x \in Int /\ (x # Missing => x \in Nat)
BY FigureAssumption DEF FigureAssumption, Some, Missing

LEMMA FiguresAreNat ==
  /\ \A x \in Amounts : x \in Nat
  /\ \A x \in Limits : x \in Nat
  /\ \A x \in Parts : x \in Nat
BY FigureAssumption DEF FigureAssumption

LEMMA CountTakes ==
  ASSUME NEW p, NEW label, NEW n \in Nat, NEW limit \in Nat, limit > 0 \/ p \in PassesZero
  PROVE  Takes(p, Progress(label, n, limit, "count")) /\ Takes(p, Progress(label, n, limit, "dollars"))
BY ProgressTakes

-----------------------------------------------------------------------------
LEMMA ClaudeSound == ASSUME NEW d \in ClaudeData PROVE Sound("claude", claude_lines(d).lines)
<1> DEFINE spent == Progress("Extra usage spent", d.extraUsed, d.extraLimit, "dollars")
           lines == PercentOf("Session", d.has) \o PercentOf("Weekly", d.has)
                    \o PercentOf("Sonnet", d.has) \o PercentOf("Claude Design", d.has)
                    \o PercentOf("Fable", d.has)
                    \o When(d.extraUsed >= 0 /\ d.extraLimit > 0, spent)
                    \o When(d.extraUsed > 0 /\ d.extraLimit <= 0, Text("Extra usage spent"))
<1>1. d.extraUsed \in Some(Amounts) /\ d.extraLimit \in Some(Limits)
  BY DEF ClaudeData
<1>2. d.extraUsed >= 0 /\ d.extraLimit > 0 => d.extraUsed \in Nat /\ d.extraLimit \in Nat
  BY <1>1, AmountIsNat, LimitIsNat, FiguresAreNat
<1>3. d.extraUsed >= 0 /\ d.extraLimit > 0 => Takes("claude", spent)
  BY <1>2, CountTakes
<1> HIDE DEF spent
<1>4. Sound("claude", lines)
  BY <1>3, SoundPercents, SoundPlain, SoundWhen, SoundConcat, Zenon
<1>5. Sound("claude", OrStatus(lines)) /\ Sound("claude", <<Badge("Status")>> \o lines \o <<Text("Note")>>)
  <2> HIDE DEF lines
  <2> QED
    BY <1>4, SoundStatus, SoundPlain, SoundConcat, Zenon
<1>6. claude_lines(d) = IF d.limited THEN Lines(<<Badge("Status")>> \o lines \o <<Text("Note")>>)
                        ELSE Lines(OrStatus(lines))
  BY DEF claude_lines, spent
<1> HIDE DEF lines
<1> QED
  BY <1>5, <1>6, SoundOutcome, Zenon

LEMMA CodexSound == ASSUME NEW d \in CodexData PROVE Sound("codex", codex_lines(d).lines)
<1> DEFINE windows == IF d.headers # {} THEN d.headers ELSE d.has
           credit == Progress("Monthly Credit Limit", d.used, d.limit, "count")
           lines == PercentOf("Session", windows) \o PercentOf("Weekly", windows)
                    \o PercentOf("Spark", d.models) \o PercentOf("Spark Weekly", d.models)
                    \o When(d.review, Percent("Reviews", 50))
                    \o When(d.resets, Text("Rate Limit Resets"))
                    \o When(readCreditsRemaining(d), Text("Credits"))
                    \o When(readMonthlyCreditLimit(d), credit)
<1>1. d.used \in Some(Amounts) /\ d.limit \in Some(Limits)
  BY DEF CodexData
<1>2. ASSUME readMonthlyCreditLimit(d) PROVE Takes("codex", credit)
  <2>1. d.limit > 0 /\ d.used >= 0
    BY <1>2 DEF readMonthlyCreditLimit
  <2>2. d.limit \in Nat /\ d.used \in Nat
    <3> HIDE DEF windows, credit, lines
    <3> QED
      BY <1>1, <2>1, AmountIsNat, LimitIsNat, FiguresAreNat
  <2> HIDE DEF windows, lines
  <2> QED
    BY <2>1, <2>2, CountTakes
<1>3. Takes("codex", Percent("Reviews", 50))
  BY PercentTakes
<1>4. Sound("codex", lines)
  <2> HIDE DEF windows, credit
  <2> QED
    BY <1>2, <1>3, SoundPercents, SoundPlain, SoundWhen, SoundConcat, Zenon
<1>5. codex_lines(d) = Lines(OrStatus(lines))
  BY DEF codex_lines
<1> HIDE DEF lines
<1> QED
  BY <1>4, <1>5, SoundStatus, SoundOutcome, Zenon

LEMMA CursorSound == ASSUME NEW d \in CursorData PROVE Sound("cursor", cursor_lines(d).lines)
<1>1. /\ d.limit \in Some(Limits) /\ d.requests \in Some(Limits) /\ d.credits \in Limits
      /\ d.spent \in Amounts /\ d.total \in Some(Amounts)
  BY DEF CursorData
<1>2. Sound("cursor", buildRequestBasedResult(d).lines)
  <2>1. d.requests > 0 => Takes("cursor", Progress("Requests", 50, d.requests, "count"))
    BY <1>1, AmountIsNat, LimitIsNat, FiguresAreNat, CountTakes
  <2> QED
    BY <2>1, SoundOne, SoundOutcome, Zenon DEF buildRequestBasedResult
<1>3. Sound("cursor", cursor_planLines(d).lines)
  <2> DEFINE team == d.plan = "team" \/ d.spendLimit = "pooled"
             computed == IF d.limit > 0 THEN (d.spent * 100) \div d.limit ELSE 0
             shown == IF d.total # Missing THEN d.total ELSE computed
             total == IF team THEN Progress("Total usage", d.spent, d.limit, "dollars")
                      ELSE Percent("Total usage", shown)
             lines == When(d.credits > 0, Progress("Credits", 0, d.credits, "dollars"))
                      \o <<total>>
                      \o When(d.spendLimit # "none", Progress("On-demand", 0, 50, "dollars"))
  <2>1. d.credits > 0 => Takes("cursor", Progress("Credits", 0, d.credits, "dollars"))
    BY <1>1, FiguresAreNat, CountTakes
  <2>2. Takes("cursor", Progress("On-demand", 0, 50, "dollars"))
    BY CountTakes
  <2>3. ASSUME ~(team /\ d.limit = Missing) PROVE Takes("cursor", total)
    <3>1. CASE team
      <4>1. d.limit \in Nat /\ d.spent \in Nat /\ "cursor" \in PassesZero
        BY <1>1, <2>3, <3>1, AmountIsNat, LimitIsNat, FiguresAreNat DEF PassesZero
      <4>2. Takes("cursor", Progress("Total usage", d.spent, d.limit, "dollars"))
        BY <4>1, CountTakes
      <4> QED
        BY <3>1, <4>2
    <3>2. CASE ~team
      <4>1. computed \in Nat
        <5>1. CASE d.limit > 0
          <6>1. d.limit \in Nat /\ d.spent \in Nat
            <7> HIDE DEF team, computed, shown, total, lines
            <7> QED
              BY <1>1, <5>1, AmountIsNat, LimitIsNat, FiguresAreNat
          <6>2. d.spent * 100 \in Nat
            BY <6>1
          <6> QED
            BY <5>1, <6>1, <6>2, ShareNat
        <5>2. CASE ~(d.limit > 0)
          BY <5>2
        <5> QED
          BY <5>1, <5>2
      <4>2. shown \in Nat
        BY <1>1, <4>1, AmountIsNat, LimitIsNat, FiguresAreNat
      <4> HIDE DEF shown
      <4>3. Takes("cursor", Percent("Total usage", shown))
        BY <4>2, PercentTakes
      <4> QED
        BY <3>2, <4>3
    <3> QED
      BY <3>1, <3>2
  <2>4. ~(team /\ d.limit = Missing) => Sound("cursor", lines)
    <3> HIDE DEF total, team
    <3> QED
      BY <2>1, <2>2, <2>3, SoundOne, SoundWhen, SoundConcat, Zenon
  <2>5. \/ cursor_planLines(d) = Thrown("error")
        \/ cursor_planLines(d) = buildRequestBasedResult(d)
        \/ ~(team /\ d.limit = Missing) /\ cursor_planLines(d) = Lines(lines)
    <3>1. CASE d.limit = Missing /\ d.total = Missing
      <4> HIDE DEF lines, team
      <4> QED
        BY <3>1, Zenon DEF cursor_planLines
    <3>2. CASE ~(d.limit = Missing /\ d.total = Missing) /\ team /\ d.limit = Missing
      <4> HIDE DEF lines
      <4> QED
        BY <3>2, Zenon DEF cursor_planLines
    <3>3. CASE ~(d.limit = Missing /\ d.total = Missing) /\ ~(team /\ d.limit = Missing)
      BY <3>3 DEF cursor_planLines
    <3> QED
      BY <3>1, <3>2, <3>3
  <2> HIDE DEF lines
  <2> QED
    BY <1>2, <2>4, <2>5, SoundOutcome, Zenon
<1>4. cursor_lines(d) \in {buildRequestBasedResult(d), Thrown("error"), cursor_planLines(d)}
  BY Zenon DEF cursor_lines
<1> QED
  BY <1>2, <1>3, <1>4, SoundOutcome, Zenon

LEMMA FactorySound == ASSUME NEW d \in FactoryData PROVE Sound("factory", factory_lines(d).lines)
<1> DEFINE standard == Progress("Standard", 50, d.standard, "count")
           premium == Progress("Premium", 50, d.premium, "count")
<1>1. d.standard \in Some(Limits) /\ d.premium \in Some(Limits) /\ "factory" \in PassesZero
  BY DEF FactoryData, PassesZero
<1>2. /\ d.standard # Missing => Takes("factory", standard)
      /\ d.premium > 0 => Takes("factory", premium)
  BY <1>1, AmountIsNat, LimitIsNat, FiguresAreNat, CountTakes
<1> HIDE DEF standard, premium
<1>3. Sound("factory", When(d.standard # Missing, standard) \o When(d.premium > 0, premium))
  BY <1>2, SoundWhen, SoundConcat, Zenon
<1> QED
  BY <1>3, SoundStatus, SoundOutcome, Zenon DEF factory_lines, standard, premium

LEMMA GrokSound == ASSUME NEW d \in GrokData PROVE Sound("grok", grok_lines(d).lines)
<1> DEFINE pool == d.used # Missing /\ d.limit > 0
           line == Percent("Credits used", clampPercent((d.used * 100) \div d.limit))
<1>1. d.used \in Some(Amounts) /\ d.limit \in Some(Limits)
  BY DEF GrokData
<1>2. ASSUME pool PROVE Takes("grok", line)
  <2>1. d.used * 100 \in Nat /\ d.limit \in Nat /\ d.limit > 0
    BY <1>1, <1>2, AmountIsNat, LimitIsNat, FiguresAreNat
  <2>2. (d.used * 100) \div d.limit \in Nat
    BY <2>1, ShareNat
  <2>3. clampPercent((d.used * 100) \div d.limit) \in Nat
    BY <2>2 DEF clampPercent
  <2> QED
    BY <2>3, PercentTakes
<1> HIDE DEF line
<1>3. Sound("grok", When(pool, line) \o <<Badge("Pay as you go")>>)
  BY <1>2, SoundWhen, SoundPlain, SoundConcat, Zenon
<1> QED
  BY <1>3, SoundOutcome, Zenon DEF grok_lines, line

LEMMA KimiSound == ASSUME NEW d PROVE Sound("kimi", kimi_lines(d).lines)
<1>1. Takes("kimi", Percent("Session", 50)) /\ Takes("kimi", Percent("Weekly", 50))
  BY PercentTakes
<1> QED
  <2> DEFINE q == kimi_quotas(d)
             session == When(q.session # 0, Percent("Session", 50))
             week == When(q.week # 0, Percent("Weekly", 50))
  <2>1. Sound("kimi", session) /\ Sound("kimi", week)
    BY <1>1, SoundWhen
  <2>2. kimi_lines(d) = Lines(OrStatus(session \o week))
    BY Zenon DEF kimi_lines
  <2> HIDE DEF session, week
  <2> QED
    BY <2>1, <2>2, SoundConcat, SoundStatus, SoundOutcome, Zenon

LEMMA KiroSound == ASSUME NEW d PROVE Sound("kiro", kiro_lines(d).lines)
<1>1. /\ Takes("kiro", Progress("Credits", 50, 50, "count"))
      /\ Takes("kiro", Progress("Bonus Credits", 0, 50, "count"))
  <2>1. 0 \in Nat /\ 50 \in Nat /\ 50 > 0
    OBVIOUS
  <2> QED
    BY <2>1, CountTakes, Zenon
<1>2. Sound("kiro", kiro_buildOutput(d).lines)
  BY <1>1, SoundOne, SoundPlain, SoundWhen, SoundConcat, SoundOutcome, Zenon DEF kiro_buildOutput
<1> QED
  BY <1>2, SoundOutcome, Zenon DEF kiro_lines

LEMMA ClampTakes ==
  ASSUME NEW p, NEW label, NEW n \in Int
  PROVE  Takes(p, Percent(label, Clamp(n, 0, 100))) /\ Takes(p, Percent(label, 100 - Clamp(n, 0, 100)))
<1> DEFINE m == Clamp(n, 0, 100)
<1>1. m \in 0..100
  BY ClampNat
<1> HIDE DEF m
<1>2. m \in Nat /\ 100 - m \in Nat
  BY <1>1
<1> QED
  BY <1>2, PercentTakes DEF m

LEMMA ClampCounts ==
  ASSUME NEW p, NEW label, NEW n \in Int, NEW limit \in Nat, limit > 0 \/ p \in PassesZero
  PROVE  /\ Takes(p, Progress(label, Clamp(n, 0, limit), limit, "count"))
         /\ Takes(p, Progress(label, Clamp(n, 0, limit), limit, "dollars"))
<1> DEFINE m == Clamp(n, 0, limit)
<1>1. m \in Nat
  BY ClampNat
<1> HIDE DEF m
<1> QED
  BY <1>1, CountTakes DEF m

LEMMA SoundThree ==
  ASSUME NEW p, NEW a, NEW b, NEW c, Takes(p, a), Takes(p, b), Takes(p, c)
  PROVE  Sound(p, <<a, b, c>>)
<1> DEFINE s == <<a, b, c>>
<1>1. s \in Seq({a, b, c}) /\ DOMAIN s = {1, 2, 3} /\ s[1] = a /\ s[2] = b /\ s[3] = c
  OBVIOUS
<1> HIDE DEF s
<1>2. s \in Seq(Members(s))
  BY <1>1, SeqOfMembers
<1> QED
  BY <1>1, <1>2 DEF Sound, s

LEMMA LeastNatural ==
  ASSUME NEW T \in SUBSET Nat, T # {}
  PROVE  \E x \in T : \A y \in T : x <= y
<1> DEFINE R == OpToRel(<, Nat)
<1>1. IsWellFoundedOn(R, Nat)
  BY NatLessThanWellFounded
<1>2. PICK x \in T : \A y \in T : <<y, x>> \notin R
  BY <1>1, WFMin
<1>3. ASSUME NEW y \in T PROVE x <= y
  <2>1. x \in Nat /\ y \in Nat /\ <<y, x>> \in Nat \X Nat
    OBVIOUS
  <2>2. <<y, x>> \notin {ss \in Nat \X Nat : ss[1] < ss[2]}
    BY <1>2 DEF OpToRel
  <2> QED
    BY <2>1, <2>2
<1> QED
  BY <1>3

LEMMA FirstIsLeast ==
  ASSUME NEW S \in SUBSET Nat, S # {}
  PROVE  First(S) \in S /\ \A j \in S : First(S) <= j
BY LeastNatural DEF First

LEMMA ListedFacts ==
  ASSUME NEW S, NEW low \in Nat, NEW high \in Nat, NEW s \in Listed(S, low, high)
  PROVE  \E n \in Nat : n >= low /\ s \in [1..n -> S]
BY DEF Listed

-----------------------------------------------------------------------------
LEMMA CreditsSound ==
  ASSUME NEW q \in Snapshot
  PROVE  Sound("copilot", creditsLine(q))
<1>1. /\ q.entitlement \in Some(Limits \cup {Unlimited}) /\ q.remaining \in Some(Amounts)
      /\ q.percent \in Some(Amounts)
  BY DEF Snapshot
<1>2. CASE q.entitlement = Unlimited
  BY <1>2, SoundNone DEF creditsLine, Unlimited
<1>3. CASE q.entitlement # Unlimited /\ q.entitlement > 0 /\ q.remaining # Missing
  <2>1. q.entitlement \in Nat
    BY <1>1, <1>3, LimitIsNat DEF Some, Missing, Unlimited
  <2>2. q.remaining \in Nat
    BY <1>1, <1>3, AmountIsNat
  <2>3. q.entitlement - q.remaining \in Int
    BY <2>1, <2>2
  <2> DEFINE l == Progress("Credits", Clamp(q.entitlement - q.remaining, 0, q.entitlement), q.entitlement, "count")
  <2>4. Takes("copilot", l)
    BY <1>3, <2>1, <2>3, ClampCounts
  <2>5. creditsLine(q) = <<l>>
    BY <1>3 DEF creditsLine
  <2> HIDE DEF l
  <2> QED
    BY <2>4, <2>5, SoundOne
<1>4. CASE q.entitlement # Unlimited /\ ~(q.entitlement > 0 /\ q.remaining # Missing)
  <2> DEFINE l == Percent("Credits", Clamp(100 - q.percent, 0, 100))
  <2>1. 100 - q.percent \in Int
    BY <1>1, AmountIsNat
  <2>2. Takes("copilot", l)
    BY <2>1, ClampTakes
  <2>3. creditsLine(q) = When(q.percent # Missing, l)
    BY <1>4 DEF creditsLine
  <2> HIDE DEF l
  <2> QED
    BY <2>2, <2>3, SoundWhen
<1> QED
  BY <1>2, <1>3, <1>4

LEMMA SnapshotSound ==
  ASSUME NEW q \in Snapshot, NEW label
  PROVE  Sound("copilot", snapshotLine(label, q))
<1>1. /\ q.entitlement \in Some(Limits \cup {Unlimited}) /\ q.remaining \in Some(Amounts)
      /\ q.percent \in Some(Amounts)
  BY DEF Snapshot
<1>2. CASE q.entitlement \in {Unlimited, 0}
  BY <1>2, SoundNone DEF snapshotLine, Unlimited
<1>3. CASE q.entitlement \notin {Unlimited, 0} /\ q.percent # Missing
  <2> DEFINE l == Percent(label, Clamp(100 - q.percent, 0, 100))
  <2>1. 100 - q.percent \in Int
    BY <1>1, AmountIsNat
  <2>2. Takes("copilot", l)
    BY <2>1, ClampTakes
  <2>3. snapshotLine(label, q) = <<l>>
    BY <1>3 DEF snapshotLine
  <2> HIDE DEF l
  <2> QED
    BY <2>2, <2>3, SoundOne
<1>4. CASE q.entitlement \notin {Unlimited, 0} /\ q.percent = Missing
  <2> DEFINE some == q.entitlement > 0 /\ q.remaining # Missing
             l == Percent(label, Clamp(100 - (q.remaining * 100) \div q.entitlement, 0, 100))
  <2>1. ASSUME some PROVE Takes("copilot", l)
    <3>1. q.entitlement \in Nat
      BY <1>1, <2>1, LimitIsNat DEF Some, Missing, Unlimited
    <3>2. q.remaining \in Nat
      BY <1>1, <2>1, AmountIsNat
    <3>3. (q.remaining * 100) \div q.entitlement \in Nat
      BY <2>1, <3>1, <3>2, ShareNat
    <3>4. 100 - (q.remaining * 100) \div q.entitlement \in Int
      BY <3>3
    <3> QED
      BY <3>4, ClampTakes
  <2>2. snapshotLine(label, q) = When(some, l)
    BY <1>4 DEF snapshotLine
  <2> HIDE DEF l, some
  <2> QED
    BY <2>1, <2>2, SoundWhen, Zenon
<1> QED
  BY <1>2, <1>3, <1>4

LEMMA CopilotSound == ASSUME NEW d \in CopilotData PROVE Sound("copilot", copilot_lines(d).lines)
<1> DEFINE paid == creditsLine(d.premium) \o When(d.overage, Text("Additional Usage"))
                   \o snapshotLine("Chat", d.other) \o snapshotLine("Completions", d.other)
           free == makeLimitedProgressLine("Chat", d.free) \o makeLimitedProgressLine("Completions", d.free)
           sum == OrStatus(When(d.billed, Text("Credits")))
<1>1. d.premium \in Snapshot /\ d.other \in Snapshot
  BY DEF CopilotData
<1>2. \A label, c : Sound("copilot", When(c, Percent(label, 50)))
  <2>1. 50 \in Nat
    OBVIOUS
  <2> QED
    BY <2>1, PercentTakes, SoundWhen, Zenon
<1>3. Sound("copilot", paid)
  BY <1>1, CreditsSound, SnapshotSound, SoundPlain, SoundConcat, Zenon
<1>4. Sound("copilot", free)
  BY <1>2, SoundConcat, Zenon DEF makeLimitedProgressLine
<1>5. Sound("copilot", sum)
  BY SoundPlain, SoundStatus, Zenon
<1>6. copilot_lines(d) \in {Lines(paid), Lines(free), Lines(sum)}
  <2> DEFINE result == CASE paid # <<>> -> Lines(paid)
                         [] paid = <<>> /\ free # <<>> -> Lines(free)
                         [] OTHER -> Lines(sum)
  <2>1. copilot_lines(d) = result
    BY DEF copilot_lines
  <2>2. result \in {Lines(paid), Lines(free), Lines(sum)}
    <3> HIDE DEF paid, free, sum
    <3> QED
      OBVIOUS
  <2> QED
    BY <2>1, <2>2
<1> HIDE DEF paid, free, sum
<1> QED
  BY <1>3, <1>4, <1>5, <1>6, SoundOutcome, Zenon

LEMMA AmpSound == ASSUME NEW d \in AmpData PROVE Sound("amp", amp_lines(d).lines)
<1> DEFINE plan == d.tier /\ d.agent # Missing /\ d.orb # Missing
           agent == Percent("Agent Usage", Clamp(100 - d.agent, 0, 100))
           orb == Percent("Orb Usage", Clamp(100 - d.orb, 0, 100))
           lines == When(plan, agent) \o When(plan, orb) \o When(d.credits > 0 \/ ~plan, Text("Credits"))
<1>1. d.agent \in Some(Amounts \cup Limits) /\ d.orb \in Some(Amounts \cup Limits)
  BY DEF AmpData
<1>2. 100 - d.agent \in Int /\ 100 - d.orb \in Int
  BY <1>1, FigureIsNat
<1>3. Takes("amp", agent) /\ Takes("amp", orb)
  BY <1>2, ClampTakes
<1>4. amp_lines(d) = IF d.tier /\ ~plan THEN Thrown("error") ELSE Lines(lines)
  BY Zenon DEF amp_lines
<1> HIDE DEF plan, agent, orb
<1>5. Sound("amp", lines)
  BY <1>3, SoundWhen, SoundPlain, SoundConcat, Zenon
<1> HIDE DEF lines
<1> QED
  BY <1>4, <1>5, SoundOutcome, Zenon

LEMMA ZaiFinds ==
  ASSUME NEW n \in Nat, NEW S, NEW limits \in [1..n -> S], NEW type, NEW unit
  PROVE  zai_findLimit(limits, type, unit) \in 0..n
<1> DEFINE exact == {i \in DOMAIN limits : limits[i].type = type /\ limits[i].unit = unit}
           fallback == {i \in DOMAIN limits : limits[i].type = type /\ limits[i].unit = Missing}
<1>1. exact \in SUBSET (1..n) /\ fallback \in SUBSET (1..n)
  OBVIOUS
<1>2. zai_findLimit(limits, type, unit) =
        IF exact # {} THEN First(exact) ELSE IF fallback # {} THEN First(fallback) ELSE 0
  BY DEF zai_findLimit
<1> HIDE DEF exact, fallback
<1>3. /\ exact # {} => First(exact) \in 0..n
      /\ fallback # {} => First(fallback) \in 0..n
  <2>1. ASSUME NEW T \in SUBSET (1..n), T # {} PROVE First(T) \in 0..n
    <3>1. T \in SUBSET Nat
      BY <2>1
    <3>2. First(T) \in T
      BY <2>1, <3>1, FirstIsLeast
    <3>3. \A x \in 1..n : x \in 0..n
      OBVIOUS
    <3> QED
      BY <3>2, <3>3, Zenon
  <2> QED
    BY <1>1, <2>1, Zenon
<1> QED
  BY <1>2, <1>3

LEMMA ZaiSound == ASSUME NEW d \in ZaiData PROVE Sound("zai", zai_lines(d).lines)
<1> DEFINE time == zai_findLimit(d.limits, "time", Missing)
           webTotal == IF time = 0 \/ d.limits[time].usage = Missing THEN 0 ELSE d.limits[time].usage
           web == Progress("Web Searches", 0, webTotal, "count")
           lines == <<Percent("Session", 50)>>
                    \o When(zai_findLimit(d.limits, "credit", 6) # 0, Percent("Weekly", 50))
                    \o When(time # 0, web)
<1>1. d.limits \in Listed(ZaiLimit, 0, MaxList)
  BY DEF ZaiData
<1>2. PICK n \in Nat : d.limits \in [1..n -> ZaiLimit]
  BY <1>1, ListedFacts, FigureAssumption DEF FigureAssumption
<1>3. time \in 0..n
  BY <1>2, ZaiFinds
<1>4. webTotal \in Nat
  <2>1. CASE time = 0 \/ d.limits[time].usage = Missing
    BY <2>1
  <2>2. CASE time # 0 /\ d.limits[time].usage # Missing
    <3> HIDE DEF time
    <3>1. d.limits[time] \in ZaiLimit
      BY <1>2, <1>3, <2>2
    <3>2. d.limits[time].usage \in Some(Limits)
      BY <3>1 DEF ZaiLimit, Some
    <3> QED
      BY <2>2, <3>2, LimitIsNat
  <2> QED
    BY <2>1, <2>2
<1>5. /\ Takes("zai", Percent("Session", 50)) /\ Takes("zai", Percent("Weekly", 50))
      /\ Takes("zai", web)
  <2> HIDE DEF webTotal
  <2>1. "zai" \in PassesZero /\ 0 \in Nat /\ 50 \in Nat
    BY DEF PassesZero
  <2> QED
    BY <1>4, <2>1, PercentTakes, CountTakes, Zenon
<1>6. zai_lines(d) = IF zai_findLimit(d.limits, "credit", 3) = 0 THEN Lines(<<Badge("Session")>>)
                     ELSE Lines(lines)
  BY Zenon DEF zai_lines
<1> HIDE DEF time, web
<1>7. Sound("zai", lines)
  BY <1>5, SoundOne, SoundWhen, SoundConcat, Zenon
<1> HIDE DEF lines
<1> QED
  BY <1>6, <1>7, SoundPlain, SoundOutcome, Zenon

LEMMA SyntheticSound == ASSUME NEW d \in SyntheticData PROVE Sound("synthetic", synthetic_lines(d).lines)
<1> DEFINE rolling == d.max # Missing /\ d.remaining # Missing
           onV3 == rolling \/ d.mana # Missing
           five == Progress("5h Rate Limit", Clamp(d.max - d.remaining, 0, d.max), d.max, "count")
           mana == Percent("Mana Bar", Clamp(100 - d.mana, 0, 100))
           subscription == Progress("Subscription", d.requests["subscription"], d.subscription, "count")
           tools == Progress("Free Tool Calls", d.requests["tools"], d.tools, "count")
           search == Progress("Search", d.requests["search"], d.search, "count")
           lines == When(rolling, five) \o When(d.mana # Missing, mana)
                    \o When(d.limited, Badge("Rate Limited"))
                    \o When(~onV3 /\ d.subscription # Missing, subscription)
                    \o When(~onV3 /\ d.tools > 0, tools)
                    \o When(d.search # Missing, search)
<1>1. /\ d.max \in Some(Limits) /\ d.remaining \in Some(Amounts) /\ d.mana \in Some(Amounts)
      /\ d.subscription \in Some(Limits) /\ d.tools \in Some(Limits) /\ d.search \in Some(Limits)
  BY DEF SyntheticData
<1>2. "synthetic" \in PassesZero /\ "synthetic" \in PassesMissing
  BY DEF PassesZero, PassesMissing
<1>3. ASSUME rolling PROVE Takes("synthetic", five)
  <2>1. d.max \in Nat /\ d.remaining \in Nat
    BY <1>1, <1>3, AmountIsNat, LimitIsNat
  <2>2. d.max - d.remaining \in Int
    BY <2>1
  <2> QED
    BY <1>2, <2>1, <2>2, ClampCounts
<1>4. Takes("synthetic", mana)
  <2>1. 100 - d.mana \in Int
    BY <1>1, AmountIsNat
  <2> QED
    BY <2>1, ClampTakes
<1>5. /\ d.subscription # Missing => d.subscription \in Nat
      /\ d.tools > 0 => d.tools \in Nat
      /\ d.search # Missing => d.search \in Nat
  BY <1>1, LimitIsNat
<1>6. /\ d.subscription # Missing => Takes("synthetic", subscription)
      /\ d.tools > 0 => Takes("synthetic", tools)
      /\ d.search # Missing => Takes("synthetic", search)
  <2>1. /\ d.requests["subscription"] \in Some(Amounts) /\ d.requests["tools"] \in Some(Amounts)
        /\ d.requests["search"] \in Some(Amounts)
    BY DEF SyntheticData
  <2>2. ASSUME NEW n \in Some(Amounts), NEW limit \in Nat, NEW label
        PROVE  Takes("synthetic", Progress(label, n, limit, "count"))
    <3>1. CASE n = Missing
      <4>1. Progress(label, n, limit, "count").used = Missing
        BY <3>1 DEF Progress, Line
      <4> QED
        BY <1>2, <4>1, Zenon DEF Takes
    <3>2. CASE n # Missing
      <4>1. n \in Nat
        BY <3>2, AmountIsNat
      <4> QED
        BY <1>2, <4>1, CountTakes, Zenon
    <3> QED
      BY <3>1, <3>2
  <2> QED
    BY <1>5, <2>1, <2>2, Zenon
<1>7. synthetic_lines(d) = Lines(lines)
  BY Zenon DEF synthetic_lines
<1> HIDE DEF rolling, onV3, five, mana, subscription, tools, search
<1>8. Sound("synthetic", lines)
  BY <1>3, <1>4, <1>6, SoundWhen, SoundPlain, SoundConcat, Zenon
<1> HIDE DEF lines
<1> QED
  BY <1>7, <1>8, SoundOutcome, Zenon

LEMMA OpenrouterSound ==
  ASSUME NEW s, NEW d \in OpenrouterData
  PROVE  Sound("openrouter", openrouter_lines(s, d).lines)
<1> DEFINE credits == Progress("Credits", d.usage, d.total, "dollars")
           left == Clamp(d.left, 0, d.left)
           key == Progress("Key Limit", Clamp(d.limit - left, 0, d.limit), d.limit, "dollars")
           lines == (IF s.reply = "ok" THEN creditsLines(d) ELSE <<>>)
                    \o (IF s.key = "ok" THEN keyMetrics(d) ELSE <<>>)
<1>1. /\ d.usage \in Some(Amounts) /\ d.total \in Some(Limits)
      /\ d.limit \in Some(Limits) /\ d.left \in Some(Amounts)
  BY DEF OpenrouterData
<1>2. Sound("openrouter", creditsLines(d))
  <2>1. ASSUME d.usage # Missing /\ d.total > 0 PROVE Takes("openrouter", credits)
    <3>1. d.usage \in Nat /\ d.total \in Nat
      BY <1>1, <2>1, AmountIsNat, LimitIsNat
    <3> QED
      BY <2>1, <3>1, CountTakes
  <2>2. creditsLines(d) = When(d.usage # Missing /\ d.total > 0, credits)
                          \o When(d.usage # Missing, Text("Balance"))
    BY Zenon DEF creditsLines
  <2> HIDE DEF credits
  <2> QED
    BY <2>1, <2>2, SoundWhen, SoundPlain, SoundConcat, Zenon
<1>3. Sound("openrouter", keyMetrics(d))
  <2>1. left \in Int
    BY <1>1, AmountIsNat DEF Clamp
  <2>2. ASSUME d.limit > 0 PROVE Takes("openrouter", key)
    <3> HIDE DEF left
    <3>1. d.limit \in Nat
      BY <1>1, <2>2, LimitIsNat
    <3>2. d.limit - left \in Int
      BY <2>1, <3>1
    <3> QED
      BY <2>2, <3>1, <3>2, ClampCounts
  <2>3. keyMetrics(d) = When("This Week" \in d.has, Text("This Week")) \o appendShareGraphLines(d)
                        \o When(d.limit > 0, key)
    BY Zenon DEF keyMetrics
  <2>4. Sound("openrouter", appendShareGraphLines(d))
    BY SoundPlain, SoundConcat, Zenon DEF appendShareGraphLines
  <2> HIDE DEF key
  <2> QED
    BY <2>2, <2>3, <2>4, SoundWhen, SoundPlain, SoundConcat, Zenon
<1>4. Sound("openrouter", lines)
  BY <1>2, <1>3, SoundNone, SoundConcat, Zenon
<1>5. openrouter_lines(s, d) = Lines(IF lines = <<>> THEN <<Badge("Balance")>> ELSE lines)
  BY Zenon DEF openrouter_lines
<1> HIDE DEF lines
<1> QED
  BY <1>4, <1>5, SoundPlain, SoundOutcome, Zenon

LEMMA OllamaSound == ASSUME NEW d \in OllamaData PROVE Sound("ollama", ollama_lines(d).lines)
<1> DEFINE balance == IF d.balance = Missing THEN 0 ELSE d.balance
           session == Percent("Session", 100 - Clamp(d.session, 0, 100))
           weekly == Percent("Weekly", 100 - Clamp(d.weekly, 0, 100))
           included == Progress("Included Credits", Clamp(d.allowance - balance, 0, d.allowance),
                                d.allowance, "dollars")
           lines == When(d.session # Missing, session) \o When(d.weekly # Missing, weekly)
                    \o When(d.allowance > 0, included) \o When(d.purchased, Text("Purchased Credits"))
<1>1. /\ d.session \in Some(Amounts \cup Limits) /\ d.weekly \in Some(Amounts \cup Limits)
      /\ d.allowance \in Some(Limits) /\ d.balance \in Some(Amounts)
  BY DEF OllamaData
<1>2. Takes("ollama", session) /\ Takes("ollama", weekly)
  <2>1. d.session \in Int /\ d.weekly \in Int
    BY <1>1, FigureIsNat
  <2> QED
    BY <2>1, ClampTakes
<1>3. ASSUME d.allowance > 0 PROVE Takes("ollama", included)
  <2>1. d.allowance \in Nat
    BY <1>1, <1>3, LimitIsNat
  <2>2. balance \in Int
    BY <1>1, AmountIsNat
  <2> HIDE DEF balance
  <2>3. d.allowance - balance \in Int
    BY <2>1, <2>2
  <2> QED
    BY <1>3, <2>1, <2>3, ClampCounts
<1>4. ollama_lines(d) = Lines(IF lines = <<>> THEN <<Badge("Balance")>> ELSE lines)
  BY Zenon DEF ollama_lines
<1> HIDE DEF session, weekly, included
<1>5. Sound("ollama", lines)
  BY <1>2, <1>3, SoundWhen, SoundPlain, SoundConcat, Zenon
<1> HIDE DEF lines
<1> QED
  BY <1>4, <1>5, SoundPlain, SoundOutcome, Zenon

LEMMA OpencodeSound == ASSUME NEW d \in OpencodeData PROVE Sound("opencode-go", opencode_lines(d).lines)
<1> DEFINE lines == <<Percent("Session", d.rolling), Percent("Weekly", d.weekly), Percent("Monthly", d.monthly)>>
<1>1. /\ d.rolling \in Some(Amounts) /\ d.weekly \in Some(Amounts) /\ d.monthly \in Some(Amounts)
      /\ DOMAIN d = {"rolling", "weekly", "monthly"}
  BY DEF OpencodeData
<1>2. ASSUME parseUsage(d) PROVE Sound("opencode-go", lines)
  <2>1. d.rolling # Missing /\ d.weekly # Missing /\ d.monthly # Missing
    BY <1>1, <1>2 DEF parseUsage
  <2>2. d.rolling \in Nat /\ d.weekly \in Nat /\ d.monthly \in Nat
    BY <1>1, <2>1, AmountIsNat
  <2> DEFINE a == Percent("Session", d.rolling)
             b == Percent("Weekly", d.weekly)
             c == Percent("Monthly", d.monthly)
  <2>3. Takes("opencode-go", a) /\ Takes("opencode-go", b) /\ Takes("opencode-go", c)
    BY <2>2, PercentTakes
  <2> HIDE DEF a, b, c
  <2>4. Sound("opencode-go", <<a, b, c>>)
    BY <2>3, SoundThree
  <2> QED
    BY <2>4 DEF a, b, c
<1>3. opencode_lines(d) = IF ~parseUsage(d) THEN Thrown("error") ELSE Lines(lines)
  BY DEF opencode_lines
<1> HIDE DEF lines
<1> QED
  BY <1>2, <1>3, SoundOutcome, Zenon

LEMMA PromptsNat ==
  ASSUME NEW n \in Nat, NEW endpoint
  PROVE  Prompts(n, endpoint) \in Nat
BY DEF Prompts

LEMMA MinimaxSound ==
  ASSUME NEW endpoint, NEW d \in MinimaxData(endpoint)
  PROVE  Sound("minimax", minimax_lines(endpoint, d).lines)
<1> DEFINE models == d.models
           shown == parsePayloadShape(models, endpoint)
           counted == {i \in DOMAIN models : Prompts(models[i].total, endpoint) > 0}
           percent == {i \in DOMAIN models : models[i].percent \in 0..100}
           general == {i \in percent : models[i].general}
<1>1. models \in Listed(MinimaxModel, 1, MaxList) /\ shown # 0
  BY DEF MinimaxData
<1>2. PICK n \in Nat : models \in [1..n -> MinimaxModel]
  BY <1>1, ListedFacts, FigureAssumption DEF FigureAssumption
<1>3. /\ counted \in SUBSET (1..n) /\ percent \in SUBSET (1..n) /\ general \in SUBSET percent
      /\ DOMAIN models = 1..n
  BY <1>2
<1>4. shown = CASE counted # {} -> First(counted)
                [] counted = {} /\ general # {} -> First(general)
                [] counted = {} /\ general = {} /\ percent # {} -> First(percent)
                [] OTHER -> 0
  BY DEF parsePayloadShape
<1>5. shown \in counted \/ shown \in percent
  <2> HIDE DEF counted, percent, general, shown, models
  <2>1. ASSUME NEW T \in SUBSET (1..n), T # {} PROVE First(T) \in T
    <3>1. T \in SUBSET Nat
      BY <2>1
    <3> QED
      BY <2>1, <3>1, FirstIsLeast
  <2>2. general \in SUBSET (1..n)
    BY <1>3
  <2>3. /\ counted # {} => First(counted) \in counted
        /\ general # {} => First(general) \in general
        /\ percent # {} => First(percent) \in percent
    BY <1>3, <2>1, <2>2, Zenon
  <2> QED
    BY <1>1, <1>3, <1>4, <2>3
<1> HIDE DEF shown
<1> DEFINE chosen == models[shown]
           used == Clamp(chosen.total - chosen.left, 0, chosen.total)
           total == Prompts(chosen.total, endpoint)
           left == Percent("Session", 100 - chosen.percent)
           session == Progress("Session", Prompts(used, endpoint), total, "count")
<1>6. shown \in 1..n /\ (total > 0 \/ chosen.percent \in 0..100)
  BY <1>3, <1>5
<1>7. chosen \in MinimaxModel
  BY <1>2, <1>6
<1> HIDE DEF models, counted, percent, general
<1>8. chosen.total \in Nat /\ chosen.left \in Nat
  <2> HIDE DEF chosen
  <2>1. chosen.total \in Limits \cup Parts /\ chosen.left \in Amounts
    BY <1>7 DEF MinimaxModel
  <2> QED
    BY <2>1, FiguresAreNat
<1> HIDE DEF chosen
<1>9. used \in Nat /\ total \in Nat
  <2>1. chosen.total - chosen.left \in Int
    BY <1>8
  <2>2. used \in Nat
    <3>1. Clamp(chosen.total - chosen.left, 0, chosen.total) \in 0..chosen.total
      BY <1>8, <2>1, ClampNat
    <3> HIDE DEF used
    <3>2. used \in 0..chosen.total
      BY <3>1 DEF used
    <3> QED
      BY <1>8, <3>2
  <2> QED
    BY <1>8, <2>2, PromptsNat
<1> HIDE DEF used, total
<1>10. ASSUME total # 0 PROVE Takes("minimax", session)
  <2>1. Prompts(used, endpoint) \in Nat /\ total > 0
    BY <1>9, <1>10, PromptsNat
  <2> QED
    BY <1>9, <2>1, CountTakes
<1>11. ASSUME total = 0 PROVE Takes("minimax", left)
  <2>1. 100 - chosen.percent \in Nat
    BY <1>6, <1>11
  <2> QED
    BY <2>1, PercentTakes
<1>12. minimax_lines(endpoint, d) = IF total = 0 THEN Lines(<<left>>) ELSE Lines(<<session>>)
  BY Zenon DEF minimax_lines, total, chosen, shown, models, used
<1> HIDE DEF left, session
<1> QED
  BY <1>10, <1>11, <1>12, SoundOne, SoundOutcome, Zenon

LEMMA ClineSound ==
  ASSUME NEW s, NEW d \in ClineData
  PROVE  Sound("cline-pass", cline_lines(s, d).lines)
<1> DEFINE ShownOr(label, used, otherwise) ==
             IF s.limits = "ok" /\ used # Missing THEN <<Percent(label, Clamp(used, 0, 100))>> ELSE otherwise
<1>1. d.session \in Int /\ d.weekly \in Int /\ d.monthly \in Int
  <2>1. d.session \in Some(Amounts) /\ d.weekly \in Some(Amounts) /\ d.monthly \in Some(Amounts)
    BY DEF ClineData
  <2> QED
    BY <2>1, AmountIsNat
<1>2. ASSUME NEW label, NEW used \in Int, NEW otherwise, Sound("cline-pass", otherwise)
      PROVE  Sound("cline-pass", ShownOr(label, used, otherwise))
  <2>1. Takes("cline-pass", Percent(label, Clamp(used, 0, 100)))
    BY ClampTakes
  <2> QED
    BY <1>2, <2>1, SoundOne, Zenon
<1>3. cline_lines(s, d) = Lines(ShownOr("Session", d.session, <<Text("Session")>>)
                                \o ShownOr("Weekly", d.weekly, <<Text("Weekly")>>)
                                \o ShownOr("Monthly", d.monthly, <<>>))
  BY Zenon DEF cline_lines
<1> HIDE DEF ShownOr
<1>4. /\ Sound("cline-pass", ShownOr("Session", d.session, <<Text("Session")>>))
      /\ Sound("cline-pass", ShownOr("Weekly", d.weekly, <<Text("Weekly")>>))
      /\ Sound("cline-pass", ShownOr("Monthly", d.monthly, <<>>))
  BY <1>1, <1>2, SoundPlain, SoundNone, Zenon
<1> QED
  BY <1>3, <1>4, SoundConcat, SoundOutcome, Zenon

-----------------------------------------------------------------------------
LEMMA MockSound == Sound("mock", mock_lines.lines)
<1> DEFINE a == Percent("Behind pace", 65)
           b == Progress("Empty bar", 0, 500, "dollars")
           c == Progress("Over limit!", 1337, 1000, "count")
           e == Progress("Tiny sliver", 1, 10000, "percent")
           f == Text("Status")
           g == Badge("Tier")
           s == <<a, b, c, e, f, g>>
<1>1. mock_lines = Lines(s)
  BY DEF mock_lines
<1> HIDE DEF a, b, c, e, f, g
<1>2. s \in Seq({a, b, c, e, f, g})
  OBVIOUS
<1>3. s \in Seq(Members(s))
  BY <1>2, SeqOfMembers
<1>4. \A i \in DOMAIN s : Takes("mock", s[i])
  BY DEF Takes
<1>5. Sound("mock", s)
  BY <1>3, <1>4 DEF Sound
<1> QED
  BY <1>1, <1>5, SoundOutcome, Zenon

-----------------------------------------------------------------------------
\* Of some of the models, one has the least left.
LEMMA OneHasLeast ==
  ASSUME NEW n \in Nat, NEW models \in [1..n -> AntigravityModel],
         NEW J \in SUBSET (1..n), J # {}
  PROVE  \E left \in {models[i].left : i \in J} : left \in Nat /\ \A i \in J : left <= models[i].left
<1> DEFINE T == {models[i].left : i \in J}
<1>1. ASSUME NEW i \in J PROVE models[i].left \in Nat
  <2>1. models[i] \in AntigravityModel
    BY <1>1
  <2>2. models[i].left \in Amounts \cup Limits
    BY <2>1 DEF AntigravityModel
  <2> QED
    BY <2>2, FiguresAreNat
<1>2. T \in SUBSET Nat /\ T # {}
  BY <1>1
<1>3. \A i \in J : models[i].left \in T
  OBVIOUS
<1> HIDE DEF T
<1>4. PICK left \in T : \A y \in T : left <= y
  BY <1>2, LeastNatural
<1> QED
  BY <1>2, <1>3, <1>4 DEF T

LEMMA WorstOfPool ==
  ASSUME NEW n \in Nat, NEW models \in [1..n -> AntigravityModel], NEW label,
         \E i \in DOMAIN models : poolLabel(models[i].label) = label
  PROVE  keepWorst(models, poolLabel, label) \in Nat
<1> DEFINE J == {j \in DOMAIN models : poolLabel(models[j].label) = label}
           Least(left) == \A i \in DOMAIN models : poolLabel(models[i].label) = label => left <= models[i].left
           T == {models[i].left : i \in J}
<1>1. J \in SUBSET (1..n) /\ J # {}
  OBVIOUS
<1>2. \E left \in T : left \in Nat /\ \A i \in J : left <= models[i].left
  <2> HIDE DEF J
  <2> QED
    BY <1>1, OneHasLeast
<1>3. \E left \in T : Least(left)
  BY <1>2
<1>4. keepWorst(models, poolLabel, label) = CHOOSE left \in T : Least(left)
  BY DEF keepWorst
<1>5. T \in SUBSET Nat
  <2>1. ASSUME NEW i \in 1..n PROVE models[i].left \in Nat
    <3>1. models[i] \in AntigravityModel
      BY <2>1
    <3>2. models[i].left \in Amounts \cup Limits
      BY <3>1 DEF AntigravityModel
    <3> QED
      BY <3>2, FiguresAreNat
  <2> QED
    BY <1>1, <2>1
<1> HIDE DEF T, Least
<1> QED
  BY <1>3, <1>4, <1>5

LEMMA WorstOfOwn ==
  ASSUME NEW n \in Nat, NEW models \in [1..n -> AntigravityModel], NEW label,
         \E i \in DOMAIN models : ownLabel(models[i].label) = label
  PROVE  keepWorst(models, ownLabel, label) \in Nat
<1> DEFINE J == {j \in DOMAIN models : ownLabel(models[j].label) = label}
           Least(left) == \A i \in DOMAIN models : ownLabel(models[i].label) = label => left <= models[i].left
           T == {models[i].left : i \in J}
<1>1. J \in SUBSET (1..n) /\ J # {}
  OBVIOUS
<1>2. \E left \in T : left \in Nat /\ \A i \in J : left <= models[i].left
  <2> HIDE DEF J
  <2> QED
    BY <1>1, OneHasLeast
<1>3. \E left \in T : Least(left)
  BY <1>2
<1>4. keepWorst(models, ownLabel, label) = CHOOSE left \in T : Least(left)
  BY DEF keepWorst
<1>5. T \in SUBSET Nat
  <2>1. ASSUME NEW i \in 1..n PROVE models[i].left \in Nat
    <3>1. models[i] \in AntigravityModel
      BY <2>1
    <3>2. models[i].left \in Amounts \cup Limits
      BY <3>1 DEF AntigravityModel
    <3> QED
      BY <3>2, FiguresAreNat
  <2> QED
    BY <1>1, <2>1
<1> HIDE DEF T, Least
<1> QED
  BY <1>3, <1>4, <1>5

LEMMA ModelLineSound ==
  ASSUME NEW n \in Nat, NEW models \in [1..n -> AntigravityModel], NEW label
  PROVE  /\ Sound("antigravity", modelLine(models, poolLabel, label))
         /\ Sound("antigravity", modelLine(models, ownLabel, label))
<1> DEFINE pool == Percent(label, 100 - Clamp(keepWorst(models, poolLabel, label), 0, 100))
           own == Percent(label, 100 - Clamp(keepWorst(models, ownLabel, label), 0, 100))
           isPool == \E i \in DOMAIN models : poolLabel(models[i].label) = label
           isOwn == \E i \in DOMAIN models : ownLabel(models[i].label) = label
<1>1. ASSUME isPool PROVE Takes("antigravity", pool)
  <2>1. keepWorst(models, poolLabel, label) \in Nat
    BY <1>1, WorstOfPool
  <2> QED
    BY <2>1, ClampTakes
<1>2. ASSUME isOwn PROVE Takes("antigravity", own)
  <2>1. keepWorst(models, ownLabel, label) \in Nat
    BY <1>2, WorstOfOwn
  <2> QED
    BY <2>1, ClampTakes
<1>3. modelLine(models, poolLabel, label) = When(isPool, pool) /\ modelLine(models, ownLabel, label) = When(isOwn, own)
  BY Zenon DEF modelLine
<1> HIDE DEF pool, own, isPool, isOwn
<1> QED
  BY <1>1, <1>2, <1>3, SoundWhen, Zenon

LEMMA AntigravitySound == ASSUME NEW d \in AntigravityData PROVE Sound("antigravity", antigravity_lines(d).lines)
<1>1. d.models \in Listed(AntigravityModel, 1, MaxList)
  BY DEF AntigravityData
<1>2. PICK n \in Nat : d.models \in [1..n -> AntigravityModel]
  BY <1>1, ListedFacts, FigureAssumption DEF FigureAssumption
<1>3. \A label : /\ Sound("antigravity", modelLine(d.models, poolLabel, label))
                 /\ Sound("antigravity", modelLine(d.models, ownLabel, label))
  BY <1>2, ModelLineSound
<1>4. antigravity_lines(d) =
        Lines(modelLine(d.models, poolLabel, "Gemini Pro") \o modelLine(d.models, poolLabel, "Gemini Flash")
              \o modelLine(d.models, poolLabel, "Claude") \o modelLine(d.models, ownLabel, "Gemini 2 Pro")
              \o modelLine(d.models, ownLabel, "Gemini 3 Pro") \o modelLine(d.models, ownLabel, "GPT"))
  BY Zenon DEF antigravity_lines
<1> QED
  BY <1>3, <1>4, SoundConcat, SoundOutcome, Zenon

-----------------------------------------------------------------------------
LEMMA CreditLineSound ==
  ASSUME NEW c \in Credit, NEW label
  PROVE  Sound("devin", buildCreditLine(label, c))
<1> DEFINE total == IF c.used >= 0 /\ c.available >= 0 THEN c.used + c.available ELSE 0
           l == Percent(label, Clamp((c.used * 100) \div total, 0, 100))
<1>1. /\ c.used \in Int /\ c.available \in Int
      /\ c.used >= 0 => c.used \in Nat
      /\ c.available >= 0 => c.available \in Nat
  <2>1. c.used \in Some(Limits \cup {Unlimited}) /\ c.available \in Some(Limits \cup {Unlimited})
    BY DEF Credit
  <2> QED
    BY <2>1, FiguresAreNat DEF Some, Missing, Unlimited
<1>2. ASSUME total > 0 PROVE Takes("devin", l)
  <2>1. c.used * 100 \in Nat /\ total \in Nat
    BY <1>1, <1>2
  <2> HIDE DEF total
  <2>2. (c.used * 100) \div total \in Nat
    BY <1>2, <2>1, ShareNat
  <2> QED
    BY <2>2, ClampTakes
<1> HIDE DEF l, total
<1>3. Sound("devin", <<Badge(label)>>) /\ (total > 0 => Sound("devin", <<l>>))
      /\ Sound("devin", When(c.used > 0 \/ c.available > 0, Text(label)))
  BY <1>2, SoundOne, SoundPlain, Zenon
<1>4. buildCreditLine(label, c) =
        CASE Unlimited \in {c.used, c.available} -> <<Badge(label)>>
          [] Unlimited \notin {c.used, c.available} /\ total > 0 -> <<l>>
          [] OTHER -> When(c.used > 0 \/ c.available > 0, Text(label))
  BY Zenon DEF buildCreditLine, l, total
<1>5. CASE Unlimited \in {c.used, c.available}
  BY <1>3, <1>4, <1>5
<1>6. CASE Unlimited \notin {c.used, c.available} /\ total > 0
  BY <1>3, <1>4, <1>6
<1>7. CASE Unlimited \notin {c.used, c.available} /\ ~(total > 0)
  BY <1>3, <1>4, <1>7
<1> QED
  BY <1>5, <1>6, <1>7

LEMMA AcuLineSound ==
  ASSUME NEW d \in DevinReport
  PROVE  Sound("devin", buildAcuLine(d))
<1> DEFINE consumed == IF d.consumed = Missing THEN 0 ELSE d.consumed
           l == Percent("ACU used", Clamp((consumed * 100) \div d.limit, 0, 100))
<1>1. d.consumed \in Some(Amounts) /\ d.limit \in Some(Limits)
  BY DEF DevinReport
<1>2. ASSUME d.limit > 0 PROVE Takes("devin", l)
  <2>1. consumed \in Nat /\ d.limit \in Nat
    <3> HIDE DEF l
    <3>1. d.limit \in Nat /\ (d.consumed # Missing => d.consumed \in Nat)
      <4> HIDE DEF consumed
      <4> QED
        BY <1>1, <1>2, AmountIsNat, LimitIsNat
    <3> QED
      BY <3>1
  <2> HIDE DEF consumed
  <2>2. consumed * 100 \in Nat
    BY <2>1
  <2>3. (consumed * 100) \div d.limit \in Nat
    BY <1>2, <2>1, <2>2, ShareNat
  <2>4. (consumed * 100) \div d.limit \in Int
    BY <2>3
  <2> QED
    BY <2>4, ClampTakes, Zenon
<1>3. buildAcuLine(d) = IF d.limit > 0 THEN <<l>> ELSE When(d.consumed > 0, Text("ACU used"))
  BY Zenon DEF buildAcuLine
<1> HIDE DEF l
<1> QED
  BY <1>2, <1>3, SoundOne, SoundPlain, Zenon

LEMMA DevinSound ==
  ASSUME NEW d \in DevinData
  PROVE  Sound("devin", Lines(buildOutput(d)).lines)
<1> DEFINE week == IF d.weekly # Missing THEN d.weekly ELSE IF d.weeklyReset THEN 0
                   ELSE IF d.hideDaily THEN d.daily ELSE Missing
           paced == week # Missing \/ (d.limit > 0)
           weekly == Percent("Weekly quota", Clamp(100 - week, 0, 100))
           daily == Percent("Daily quota", Clamp(100 - d.daily, 0, 100))
<1>1. d \in DevinReport
  BY DEF DevinData
<1>2. d.daily \in Some(Amounts) /\ d.weekly \in Some(Amounts) /\ d.credit \in Credit
  BY <1>1 DEF DevinReport
<1>3. 100 - d.daily \in Int /\ 100 - week \in Int
  <2>1. d.daily \in Int /\ d.weekly \in Int
    BY <1>2, AmountIsNat
  <2> QED
    BY <2>1 DEF Missing
<1>4. Takes("devin", weekly) /\ Takes("devin", daily)
  <2> HIDE DEF week
  <2> QED
    BY <1>3, ClampTakes
<1>5. buildOutput(d) =
        buildAcuLine(d) \o When(week # Missing, weekly) \o When(~d.hideDaily /\ d.daily # Missing, daily)
        \o buildCreditLine("Prompt credits", d.credit) \o buildCreditLine("Flow credits", d.credit)
        \o buildCreditLine("On-demand credits", d.credit)
        \o When(d.overage, Text("Extra usage balance")) \o When(d.pace /\ paced, Badge("Pace"))
  BY Zenon DEF buildOutput
<1> HIDE DEF week, paced, weekly, daily
<1>6. Sound("devin", buildOutput(d))
  BY <1>1, <1>2, <1>4, <1>5, AcuLineSound, CreditLineSound, SoundWhen, SoundPlain, SoundConcat, ZenonT(60)
<1> QED
  BY <1>6, SoundOutcome, Zenon

LEMMA PerplexitySound ==
  ASSUME NEW s, NEW d \in PerplexityData
  PROVE  Sound("perplexity", perplexity_lines(s, d).lines)
<1> DEFINE balance == IF s.groups /\ s.group THEN d.balance ELSE Missing
           credits == Progress("API credits", d.cost, balance, "dollars")
           costs == balance > 0 /\ s.analytics /\ d.cost # Missing
           lines == When(costs, credits) \o (IF s.rates THEN buildRateLimitLines(d.rates) ELSE <<>>)
<1>1. d.balance \in Some(Limits) /\ d.cost \in Some(Amounts)
  BY DEF PerplexityData
<1>2. ASSUME costs PROVE Takes("perplexity", credits)
  <2>1. balance \in Some(Limits)
    BY <1>1 DEF Some
  <2> HIDE DEF balance
  <2>2. balance > 0 /\ d.cost # Missing
    BY <1>2
  <2>3. balance \in Nat /\ d.cost \in Nat
    BY <1>1, <2>1, <2>2, AmountIsNat, LimitIsNat
  <2> QED
    BY <2>2, <2>3, CountTakes
<1>3. Sound("perplexity", buildRateLimitLines(d.rates))
  BY SoundPlain, SoundConcat, Zenon DEF buildRateLimitLines
<1>4. perplexity_lines(s, d) = IF lines = <<>> THEN Thrown("error") ELSE Lines(lines)
  BY Zenon DEF perplexity_lines
<1> HIDE DEF balance, credits, costs
<1>5. Sound("perplexity", lines)
  BY <1>2, <1>3, SoundWhen, SoundNone, SoundConcat, Zenon
<1> HIDE DEF lines
<1> QED
  BY <1>4, <1>5, SoundOutcome, Zenon

-----------------------------------------------------------------------------
LEMMA SumIsNat ==
  ASSUME NEW w, NEW a, NEW b,
         w = Missing \/ w \in Nat, a = Missing \/ a \in Nat, b = Missing \/ b \in Nat
  PROVE  SumOf(w, a, b) = Missing \/ SumOf(w, a, b) \in Nat
<1>1. CASE w # Missing
  BY <1>1 DEF SumOf
<1>2. CASE w = Missing /\ a = Missing
  BY <1>2 DEF SumOf
<1>3. CASE w = Missing /\ a # Missing /\ b = Missing
  BY <1>3 DEF SumOf
<1>4. CASE w = Missing /\ a # Missing /\ b # Missing
  <2>1. SumOf(w, a, b) = a + b
    BY <1>4 DEF SumOf
  <2> QED
    BY <1>4, <2>1
<1> QED
  BY <1>1, <1>2, <1>3, <1>4

\* The figures of a quota that is one.
LEMMA QuotaFacts ==
  ASSUME NEW file \in QuotaFile, normalizeQuota(file).usable
  PROVE  /\ normalizeQuota(file).maximum \in Nat \ {0}
         /\ normalizeQuota(file).used \in Nat
         /\ normalizeQuota(file).until \in Int
<1> DEFINE maximum == SumOf(file.maximum, file.tariff, file.topUp)
           used == SumOf(file.current, file.tariffCurrent, Missing)
<1>1. /\ file.maximum \in Some(Limits) /\ file.tariff \in Some(Parts) /\ file.topUp \in Some(Parts)
      /\ file.current \in Some(Amounts) /\ file.tariffCurrent \in Some(Parts) /\ file.until \in Some({1, 2})
  BY DEF QuotaFile
<1>2. normalizeQuota(file) = [usable |-> maximum > 0 /\ used # Missing, maximum |-> maximum,
                              used |-> Clamp(used, 0, maximum), until |-> file.until]
  BY DEF normalizeQuota
<1>3. maximum = Missing \/ maximum \in Nat
  BY <1>1, LimitIsNat, PartIsNat, SumIsNat
<1>4. used = Missing \/ used \in Nat
  BY <1>1, AmountIsNat, PartIsNat, SumIsNat
<1>5. file.until \in Int
  BY <1>1 DEF Some, Missing
<1>6. maximum > 0 /\ used # Missing
  <2>1. normalizeQuota(file).usable <=> maximum > 0 /\ used # Missing
    BY DEF normalizeQuota
  <2> QED
    BY <2>1, Zenon
<1> HIDE DEF maximum, used
<1>7. maximum \in Nat \ {0} /\ used \in Int
  BY <1>3, <1>4, <1>6 DEF Missing
<1>8. Clamp(used, 0, maximum) \in Nat
  <2>1. Clamp(used, 0, maximum) \in 0..maximum
    BY <1>7, ClampNat
  <2> QED
    BY <1>7, <2>1
<1> QED
  BY <1>2, <1>5, <1>7, <1>8

\* What is used of one quota compares with another as the products do.
Ratio(a, b) == a.used * b.maximum - b.used * a.maximum

LEMMA RatioIsInt ==
  ASSUME NEW a, NEW b, a.used \in Nat, b.used \in Nat, a.maximum \in Nat, b.maximum \in Nat
  PROVE  Ratio(a, b) \in Int
BY DEF Ratio

LEMMA RatiosCompare ==
  ASSUME NEW a, NEW b, NEW c,
         a.used \in Nat, b.used \in Nat, c.used \in Nat,
         a.maximum \in Nat \ {0}, b.maximum \in Nat \ {0}, c.maximum \in Nat \ {0},
         Ratio(a, b) >= 0, Ratio(b, c) >= 0
  PROVE  /\ Ratio(a, c) >= 0
         /\ Ratio(a, b) > 0 \/ Ratio(b, c) > 0 => Ratio(a, c) > 0
         /\ Ratio(a, b) = 0 /\ Ratio(b, c) = 0 => Ratio(a, c) = 0
<1> DEFINE A == Ratio(a, b)
           B == Ratio(b, c)
           C == Ratio(a, c)
           m == a.maximum
           n == b.maximum
           o == c.maximum
<1>1. A \in Int /\ B \in Int /\ C \in Int /\ m \in Nat \ {0} /\ n \in Nat \ {0} /\ o \in Nat \ {0}
  BY RatioIsInt
<1>2. n * C = o * A + m * B
  BY DEF Ratio
<1>3. A >= 0 /\ B >= 0
  OBVIOUS
<1> HIDE DEF A, B, C, m, n, o
<1>4. o * A >= 0 /\ m * B >= 0 /\ (A > 0 => o * A > 0) /\ (B > 0 => m * B > 0)
  BY <1>1, <1>3
<1>5. n * C >= 0 /\ (A > 0 \/ B > 0 => n * C > 0) /\ (A = 0 /\ B = 0 => n * C = 0)
  <2>1. o * A \in Int /\ m * B \in Int
    BY <1>1
  <2>2. A = 0 /\ B = 0 => o * A = 0 /\ m * B = 0
    BY <1>1
  <2> QED
    BY <1>2, <1>4, <2>1, <2>2
<1>6. C >= 0 /\ (n * C > 0 => C > 0) /\ (n * C = 0 => C = 0)
  BY <1>1, <1>5
<1> QED
  BY <1>5, <1>6 DEF A, B, C

LEMMA PreferredIsOrder ==
  ASSUME NEW n \in Nat, NEW files \in [1..n -> QuotaFile]
  PROVE  /\ \A i, j \in jetbrains_states(files) : Preferred(files, i, j) \/ Preferred(files, j, i)
         /\ \A i, j, k \in jetbrains_states(files) :
              Preferred(files, i, j) /\ Preferred(files, j, k) => Preferred(files, i, k)
<1> DEFINE S == jetbrains_states(files)
           Q(i) == normalizeQuota(files[i])
<1>1. ASSUME NEW i \in S
      PROVE  i \in 1..n /\ Q(i).maximum \in Nat \ {0} /\ Q(i).used \in Nat /\ Q(i).until \in Int
  <2>1. i \in 1..n /\ Q(i).usable
    BY <1>1 DEF jetbrains_states
  <2>2. files[i] \in QuotaFile
    BY <2>1
  <2> QED
    BY <2>1, <2>2, QuotaFacts
<1> DEFINE P(i, j) ==
             \/ Q(i).until > Q(j).until
             \/ Q(i).until = Q(j).until /\ Ratio(Q(i), Q(j)) > 0
             \/ /\ Q(i).until = Q(j).until /\ Ratio(Q(i), Q(j)) = 0
                /\ Q(i).used > Q(j).used
             \/ /\ Q(i).until = Q(j).until /\ Ratio(Q(i), Q(j)) = 0
                /\ Q(i).used = Q(j).used /\ i <= j
<1>2. \A i, j : Preferred(files, i, j) <=> P(i, j)
  BY DEF Preferred, Ratio
<1> HIDE DEF S, Q
<1>3. ASSUME NEW i \in S, NEW j \in S PROVE P(i, j) \/ P(j, i)
  <2>1. /\ i \in Int /\ Q(i).maximum \in Int /\ Q(i).used \in Int /\ Q(i).until \in Int
        /\ j \in Int /\ Q(j).maximum \in Int /\ Q(j).used \in Int /\ Q(j).until \in Int
    BY <1>1
  <2>2. Ratio(Q(i), Q(j)) \in Int /\ Ratio(Q(j), Q(i)) = -Ratio(Q(i), Q(j))
    BY <1>1 DEF Ratio
  <2> QED
    BY <2>1, <2>2
<1>4. ASSUME NEW i \in S, NEW j \in S, NEW k \in S, P(i, j), P(j, k) PROVE P(i, k)
  <2> DEFINE A == Ratio(Q(i), Q(j))
             B == Ratio(Q(j), Q(k))
             C == Ratio(Q(i), Q(k))
  <2>1. /\ i \in Int /\ Q(i).maximum \in Nat \ {0} /\ Q(i).used \in Nat /\ Q(i).until \in Int
        /\ j \in Int /\ Q(j).maximum \in Nat \ {0} /\ Q(j).used \in Nat /\ Q(j).until \in Int
        /\ k \in Int /\ Q(k).maximum \in Nat \ {0} /\ Q(k).used \in Nat /\ Q(k).until \in Int
    BY <1>1
  <2>2. A \in Int /\ B \in Int /\ C \in Int
    BY <2>1, RatioIsInt
  <2>3. ASSUME A >= 0, B >= 0
        PROVE  /\ C >= 0
               /\ A > 0 \/ B > 0 => C > 0
               /\ A = 0 /\ B = 0 => C = 0
    BY <2>1, <2>3, RatiosCompare, Zenon
  <2>4. /\ \/ Q(i).until > Q(j).until
           \/ Q(i).until = Q(j).until /\ A > 0
           \/ Q(i).until = Q(j).until /\ A = 0 /\ Q(i).used > Q(j).used
           \/ Q(i).until = Q(j).until /\ A = 0 /\ Q(i).used = Q(j).used /\ i <= j
        /\ \/ Q(j).until > Q(k).until
           \/ Q(j).until = Q(k).until /\ B > 0
           \/ Q(j).until = Q(k).until /\ B = 0 /\ Q(j).used > Q(k).used
           \/ Q(j).until = Q(k).until /\ B = 0 /\ Q(j).used = Q(k).used /\ j <= k
    BY <1>4
  <2> HIDE DEF A, B, C, P
  <2>5. \/ Q(i).until > Q(k).until
        \/ Q(i).until = Q(k).until /\ C > 0
        \/ Q(i).until = Q(k).until /\ C = 0 /\ Q(i).used > Q(k).used
        \/ Q(i).until = Q(k).until /\ C = 0 /\ Q(i).used = Q(k).used /\ i <= k
    BY <2>1, <2>2, <2>3, <2>4
  <2> QED
    BY <2>5 DEF C, P
<1> HIDE DEF P
<1> QED
  BY <1>2, <1>3, <1>4 DEF S

-----------------------------------------------------------------------------
\* Induction over the numbers 0 .. N, for the set P of those that are as they
\* should be.
LEMMA EveryNumber ==
  ASSUME NEW N \in Nat, NEW P, 0 \in P, \A m \in 1..N : m - 1 \in P => m \in P
  PROVE  N \in P
<1> DEFINE T == {m \in 0..N : m \notin P}
<1> SUFFICES ASSUME T # {} PROVE FALSE
  OBVIOUS
<1>1. T \in SUBSET Nat
  OBVIOUS
<1>2. PICK x \in T : \A y \in T : x <= y
  <2> HIDE DEF T
  <2> QED
    BY <1>1, LeastNatural
<1>3. x \in 1..N /\ x - 1 \in 0..N /\ ~(x <= x - 1)
  OBVIOUS
<1> QED
  BY <1>2, <1>3

\* Of finitely many that are compared, one compares with all.
LEMMA BestExists ==
  ASSUME NEW n \in Nat, NEW S \in SUBSET (1..n), S # {}, NEW R,
         \A i, j \in S : <<i, j>> \in R \/ <<j, i>> \in R,
         \A i, j, k \in S : <<i, j>> \in R /\ <<j, k>> \in R => <<i, k>> \in R
  PROVE  \E i \in S : \A j \in S : <<i, j>> \in R
<1> DEFINE Upto(m) == S \cap 1..m
           Best(m) == \E i \in Upto(m) : \A j \in Upto(m) : <<i, j>> \in R
           P == {m \in 0..n : Upto(m) = {} \/ Best(m)}
<1>1. 0 \in P
  OBVIOUS
<1>2. ASSUME NEW m \in 1..n, m - 1 \in P PROVE m \in P
  <2>1. Upto(m) = IF m \in S THEN Upto(m - 1) \cup {m} ELSE Upto(m - 1)
    OBVIOUS
  <2>2. m \in 0..n /\ (Upto(m - 1) = {} \/ Best(m - 1))
    BY <1>2
  <2>3. CASE m \notin S
    <3>1. Upto(m) = Upto(m - 1)
      BY <2>1, <2>3
    <3> HIDE DEF Upto
    <3> QED
      BY <2>2, <3>1
  <2>4. CASE m \in S /\ Upto(m - 1) = {}
    <3>1. Upto(m) = {m}
      BY <2>1, <2>4
    <3>2. <<m, m>> \in R
      BY <2>4
    <3> HIDE DEF Upto
    <3> QED
      BY <2>2, <3>1, <3>2
  <2>5. CASE m \in S /\ Best(m - 1)
    <3>1. Upto(m) = Upto(m - 1) \cup {m} /\ Upto(m - 1) \subseteq S
      BY <2>1, <2>5
    <3> HIDE DEF Upto
    <3>2. PICK i \in Upto(m - 1) : \A j \in Upto(m - 1) : <<i, j>> \in R
      BY <2>5
    <3>3. i \in S /\ <<m, m>> \in R /\ i \in Upto(m)
      BY <2>5, <3>1
    <3>4. CASE <<i, m>> \in R
      BY <2>2, <3>1, <3>2, <3>3, <3>4
    <3>5. CASE <<m, i>> \in R
      <4>1. \A j \in Upto(m - 1) : <<m, j>> \in R
        BY <2>5, <3>1, <3>2, <3>3, <3>5
      <4> QED
        BY <2>2, <3>1, <3>3, <4>1
    <3> QED
      BY <2>5, <3>3, <3>4, <3>5
  <2> QED
    BY <2>2, <2>3, <2>4, <2>5
<1>3. n \in P
  <2> HIDE DEF P
  <2> QED
    BY <1>1, <1>2, EveryNumber
<1>4. Upto(n) = S
  OBVIOUS
<1> HIDE DEF Upto
<1> QED
  BY <1>3, <1>4

LEMMA PickedQuota ==
  ASSUME NEW n \in Nat, NEW files \in [1..n -> QuotaFile], jetbrains_states(files) # {}
  PROVE  pickBestState(files) \in jetbrains_states(files)
<1> DEFINE S == jetbrains_states(files)
           R == {r \in S \X S : Preferred(files, r[1], r[2])}
<1>1. S \in SUBSET (1..n)
  BY DEF jetbrains_states
<1>2. \A i, j \in S : <<i, j>> \in R <=> Preferred(files, i, j)
  <2> HIDE DEF S
  <2> QED
    OBVIOUS
<1>3. /\ \A i, j \in S : Preferred(files, i, j) \/ Preferred(files, j, i)
      /\ \A i, j, k \in S : Preferred(files, i, j) /\ Preferred(files, j, k) => Preferred(files, i, k)
  BY PreferredIsOrder
<1> HIDE DEF R
<1>4. /\ \A i, j \in S : <<i, j>> \in R \/ <<j, i>> \in R
      /\ \A i, j, k \in S : <<i, j>> \in R /\ <<j, k>> \in R => <<i, k>> \in R
  <2> HIDE DEF S
  <2> QED
    BY <1>2, <1>3, Zenon
<1>5. \E i \in S : \A j \in S : <<i, j>> \in R
  <2>1. S # {}
    OBVIOUS
  <2> HIDE DEF S
  <2> QED
    BY <1>1, <1>4, <2>1, BestExists
<1>6. \E i \in S : \A j \in S : Preferred(files, i, j)
  <2> HIDE DEF S
  <2> QED
    BY <1>2, <1>5, Zenon
<1> QED
  BY <1>6, Zenon DEF pickBestState

LEMMA JetbrainsSound ==
  ASSUME NEW s, s.files \in Listed(QuotaFile, 0, MaxFiles), jetbrains_states(s.files) # {}
  PROVE  Sound("jetbrains-ai-assistant", jetbrains_lines(s).lines)
<1> DEFINE best == pickBestState(s.files)
           quota == normalizeQuota(s.files[best])
           share == (quota.used * 100) \div quota.maximum
<1>1. PICK n \in Nat : s.files \in [1..n -> QuotaFile]
  BY ListedFacts, FigureAssumption DEF FigureAssumption
<1>2. best \in jetbrains_states(s.files)
  BY <1>1, PickedQuota
<1> HIDE DEF best
<1>3. s.files[best] \in QuotaFile /\ quota.usable
  BY <1>1, <1>2 DEF jetbrains_states
<1>4. quota.used \in Nat /\ quota.maximum \in Nat \ {0}
  BY <1>3, QuotaFacts
<1> HIDE DEF quota
<1>5. share \in Nat
  <2>1. quota.used * 100 \in Nat /\ quota.maximum \in Nat /\ quota.maximum > 0
    BY <1>4
  <2> QED
    BY <2>1, ShareNat
<1> HIDE DEF share
<1>6. Takes("jetbrains-ai-assistant", Percent("Quota", share))
  BY <1>5, PercentTakes
<1>7. jetbrains_lines(s) = Lines(<<Percent("Quota", share), Text("Used"), Text("Remaining")>>)
  BY Zenon DEF jetbrains_lines, best, quota, share
<1> QED
  BY <1>6, <1>7, PlainTakes, SoundThree, SoundOutcome, Zenon

-----------------------------------------------------------------------------
\* A script has what it needs before it is asked for its lines: setting is
\* one of its settings, and the files of jetbrains hold a quota.
Answerable(p, s) ==
  p = "jetbrains-ai-assistant" =>
    s.files \in Listed(QuotaFile, 0, MaxFiles) /\ jetbrains_states(s.files) # {}

LEMMA OutcomesSound ==
  ASSUME NEW p \in Script, NEW s, Answerable(p, s), NEW o \in Outcomes(p, s)
  PROVE  Sound(p, o.lines)
<1>1. CASE p = "claude"
  BY <1>1, ClaudeSound, Zenon DEF Outcomes
<1>2. CASE p = "codex"
  BY <1>2, CodexSound, Zenon DEF Outcomes
<1>3. CASE p = "cursor"
  BY <1>3, CursorSound, Zenon DEF Outcomes
<1>4. CASE p = "factory"
  BY <1>4, FactorySound, Zenon DEF Outcomes
<1>5. CASE p = "grok"
  BY <1>5, GrokSound, Zenon DEF Outcomes
<1>6. CASE p = "kimi"
  BY <1>6, KimiSound, Zenon DEF Outcomes
<1>7. CASE p = "kiro"
  BY <1>7, KiroSound, Zenon DEF Outcomes
<1>8. CASE p = "copilot"
  BY <1>8, CopilotSound, Zenon DEF Outcomes
<1>9. CASE p = "mock"
  BY <1>9, MockSound, Zenon DEF Outcomes
<1>10. CASE p = "amp"
  BY <1>10, AmpSound, Zenon DEF Outcomes
<1>11. CASE p = "zai"
  BY <1>11, ZaiSound, Zenon DEF Outcomes
<1>12. CASE p = "synthetic"
  BY <1>12, SyntheticSound, Zenon DEF Outcomes
<1>13. CASE p = "openrouter"
  BY <1>13, OpenrouterSound, Zenon DEF Outcomes
<1>14. CASE p = "ollama"
  BY <1>14, OllamaSound, Zenon DEF Outcomes
<1>15. CASE p = "opencode-go"
  BY <1>15, OpencodeSound, Zenon DEF Outcomes
<1>16. CASE p = "minimax"
  BY <1>16, MinimaxSound, Zenon DEF Outcomes
<1>17. CASE p = "cline-pass"
  BY <1>17, ClineSound, Zenon DEF Outcomes
<1>18. CASE p = "antigravity"
  BY <1>18, AntigravitySound, Zenon DEF Outcomes
<1>19. CASE p = "devin"
  BY <1>19, DevinSound, Zenon DEF Outcomes
<1>20. CASE p = "perplexity"
  BY <1>20, PerplexitySound, Zenon DEF Outcomes
<1>21. CASE p = "jetbrains-ai-assistant"
  BY <1>21, JetbrainsSound, Zenon DEF Outcomes, Answerable
<1> QED
  BY <1>1, <1>2, <1>3, <1>4, <1>5, <1>6, <1>7, <1>8, <1>9, <1>10, <1>11, <1>12, <1>13, <1>14, <1>15, <1>16, <1>17, <1>18, <1>19, <1>20, <1>21, Zenon DEF Script, LoginScripts

-----------------------------------------------------------------------------
LEMMA FetchedAnswerable ==
  ASSUME NEW p \in Script, NEW s \in Setting(p), Fetched(p, s) = "body"
  PROVE  Answerable(p, Remembered(p, s))
<1> SUFFICES ASSUME p = "jetbrains-ai-assistant" PROVE Answerable(p, Remembered(p, s))
  BY Zenon DEF Answerable
<1>1. /\ s \in [files : Listed(QuotaFile, 0, MaxFiles)]
      /\ jetbrains_fetch(s) = "body"
      /\ Remembered(p, s) = s
  BY Zenon DEF Setting, Fetched, Remembered, LoginScripts
<1>2. s.files \in Listed(QuotaFile, 0, MaxFiles)
  BY <1>1
<1>3. jetbrains_states(s.files) # {}
  BY <1>1, Zenon DEF jetbrains_fetch
<1> QED
  BY <1>1, <1>2, <1>3, Zenon DEF Answerable

\* What a script has in its hands in each stage.
ScriptInv ==
  /\ script \in Script
  /\ stage = "called" => setting \in Setting(script)
  /\ stage = "answered" => Answerable(script, setting)
  /\ Sound(script, outcome.lines)

LEMMA ScriptInvIsKept == ScriptSpec => []ScriptInv
<1>1. ScriptInit => ScriptInv
  BY SoundOutcome, Zenon DEF ScriptInit, ScriptInv
<1>2. ASSUME ScriptInv, [ScriptNext]_scriptVars PROVE ScriptInv'
  <2>1. CASE Fetch
    <3>1. CASE Fetched(script, setting) = "body"
      <4>1. /\ stage = "called" /\ stage' = "answered" /\ setting' = Remembered(script, setting)
            /\ outcome' = outcome /\ script' = script
        BY <2>1, <3>1 DEF Fetch
      <4>2. Answerable(script, Remembered(script, setting))
        BY <1>2, <3>1, <4>1, FetchedAnswerable, Zenon DEF ScriptInv
      <4> QED
        BY <1>2, <4>1, <4>2, Zenon DEF ScriptInv
    <3>2. CASE Fetched(script, setting) # "body"
      <4>1. stage' = "done" /\ outcome' = Thrown(Fetched(script, setting)) /\ script' = script
        BY <2>1, <3>2 DEF Fetch
      <4> QED
        BY <1>2, <4>1, SoundOutcome, Zenon DEF ScriptInv
    <3> QED
      BY <3>1, <3>2
  <2>2. CASE Return
    <3>1. /\ stage = "answered" /\ stage' = "done" /\ script' = script
          /\ outcome' \in Outcomes(script, setting)
      BY <2>2 DEF Return
    <3>2. Sound(script, outcome'.lines)
      BY <1>2, <3>1, OutcomesSound, Zenon DEF ScriptInv
    <3> QED
      BY <1>2, <3>1, <3>2, Zenon DEF ScriptInv
  <2>3. CASE UNCHANGED scriptVars
    <3>1. script' = script /\ setting' = setting /\ stage' = stage /\ outcome' = outcome
      BY <2>3 DEF scriptVars
    <3> QED
      BY <1>2, <3>1, Zenon DEF ScriptInv
  <2> QED
    BY <1>2, <2>1, <2>2, <2>3 DEF ScriptNext
<1> QED
  BY <1>1, <1>2, PTL DEF ScriptSpec

\* Whatever figures a service reports, the runtime accepts the lines a script
\* makes of them: no amount below nothing, no missing one other than a count
\* of requests that synthetic got none of, no limit of nothing other than one
\* the service reported, no percentage of anything but 100.
THEOREM FiguresAreAccepted == ScriptSpec => []FiguresSurvive
<1>1. ScriptInv => FiguresSurvive
  <2> SUFFICES ASSUME ScriptInv PROVE FiguresSurvive
    OBVIOUS
  <2>1. \A i \in DOMAIN outcome.lines : Takes(script, outcome.lines[i])
    BY Zenon DEF ScriptInv, Sound
  <2> QED
    BY <2>1, Zenon DEF FiguresSurvive, Takes
<1> QED
  BY <1>1, ScriptInvIsKept, PTL

(***************************************************************************)
(* ProviderProbes: a script asks for a login or a key only if it found     *)
(* none, or if one was refused.  What is shown of a script is what it had  *)
(* before it when it gave up so; with its figures at hand it never does.   *)
(***************************************************************************)
\* If none of the places holds anything, nothing is held there.
LEMMA NoneFound ==
  ASSUME NEW n \in Nat, NEW T, NEW order \in [1..n -> T], "none" \notin T, NEW held,
         FirstOf(order, held) = "none"
  PROVE  \A i \in 1..n : order[i] \notin held
<1> DEFINE found == {i \in DOMAIN order : order[i] \in held}
<1>1. FirstOf(order, held) = IF found = {} THEN "none" ELSE order[First(found)]
  BY DEF FirstOf
<1>2. found \in SUBSET (1..n)
  OBVIOUS
<1>3. ASSUME found # {} PROVE order[First(found)] \in T
  <2>1. found \in SUBSET Nat
    BY <1>2
  <2>2. First(found) \in found
    <3> HIDE DEF found
    <3> QED
      BY <1>3, <2>1, FirstIsLeast
  <2>3. First(found) \in 1..n
    <3> HIDE DEF found
    <3> QED
      BY <1>2, <2>2
  <2> QED
    BY <2>3
<1>4. found = {}
  <2> HIDE DEF found
  <2> QED
    BY <1>1, <1>3
<1> QED
  BY <1>4

LEMMA NoneOfOne ==
  ASSUME NEW a, a # "none", NEW held,
         FirstOf(<<a>>, held) = "none"
  PROVE  a \notin held
<1> DEFINE order == <<a>>
<1>1. /\ order \in [1..1 -> {a}]
      /\ order[1] = a
  OBVIOUS
<1> HIDE DEF order
<1>2. \A i \in 1..1 : order[i] \notin held
  BY <1>1, NoneFound DEF order
<1> QED
  BY <1>1, <1>2

LEMMA NoneOfTwo ==
  ASSUME NEW a, NEW b, a # "none", b # "none", NEW held,
         FirstOf(<<a, b>>, held) = "none"
  PROVE  a \notin held /\ b \notin held
<1> DEFINE order == <<a, b>>
<1>1. /\ order \in [1..2 -> {a, b}]
      /\ order[1] = a /\ order[2] = b
  OBVIOUS
<1> HIDE DEF order
<1>2. \A i \in 1..2 : order[i] \notin held
  BY <1>1, NoneFound DEF order
<1> QED
  BY <1>1, <1>2

LEMMA NoneOfThree ==
  ASSUME NEW a, NEW b, NEW c, a # "none", b # "none", c # "none", NEW held,
         FirstOf(<<a, b, c>>, held) = "none"
  PROVE  a \notin held /\ b \notin held /\ c \notin held
<1> DEFINE order == <<a, b, c>>
<1>1. /\ order \in [1..3 -> {a, b, c}]
      /\ order[1] = a /\ order[2] = b /\ order[3] = c
  OBVIOUS
<1> HIDE DEF order
<1>2. \A i \in 1..3 : order[i] \notin held
  BY <1>1, NoneFound DEF order
<1> QED
  BY <1>1, <1>2

LEMMA NoneOfFour ==
  ASSUME NEW a, NEW b, NEW c, NEW e, a # "none", b # "none", c # "none", e # "none", NEW held,
         FirstOf(<<a, b, c, e>>, held) = "none"
  PROVE  a \notin held /\ b \notin held /\ c \notin held /\ e \notin held
<1> DEFINE order == <<a, b, c, e>>
<1>1. /\ order \in [1..4 -> {a, b, c, e}]
      /\ order[1] = a /\ order[2] = b /\ order[3] = c /\ order[4] = e
  OBVIOUS
<1> HIDE DEF order
<1>2. \A i \in 1..4 : order[i] \notin held
  BY <1>1, NoneFound DEF order
<1> QED
  BY <1>1, <1>2

LEMMA NoneOfFive ==
  ASSUME NEW a, NEW b, NEW c, NEW e, NEW f, a # "none", b # "none", c # "none", e # "none", f # "none", NEW held,
         FirstOf(<<a, b, c, e, f>>, held) = "none"
  PROVE  a \notin held /\ b \notin held /\ c \notin held /\ e \notin held /\ f \notin held
<1> DEFINE order == <<a, b, c, e, f>>
<1>1. /\ order \in [1..5 -> {a, b, c, e, f}]
      /\ order[1] = a /\ order[2] = b /\ order[3] = c /\ order[4] = e /\ order[5] = f
  OBVIOUS
<1> HIDE DEF order
<1>2. \A i \in 1..5 : order[i] \notin held
  BY <1>1, NoneFound DEF order
<1> QED
  BY <1>1, <1>2

-----------------------------------------------------------------------------
\* Scripts with one request ask for a key if they have none, or if it is refused.
LEMMA KeyIsAskedFor ==
  ASSUME NEW key, NEW reply, FetchWithKey(key, reply) = "login"
  PROVE  key = "none" \/ isAuthStatus(reply)
BY Zenon DEF FetchWithKey, Required

LEMMA PlacesOfRequest ==
  ASSUME NEW S, NEW s \in OneRequest(S)
  PROVE  s.places \subseteq S
BY DEF OneRequest

LEMMA NoSyntheticKey ==
  ASSUME NEW places, synthetic_loadApiKey(places) = "none"
  PROVE  /\ "pi auth" \notin places /\ "pi models" \notin places
         /\ "factory settings" \notin places /\ "opencode auth" \notin places
         /\ "SYNTHETIC_API_KEY" \notin places
BY NoneOfFive DEF synthetic_loadApiKey

LEMMA NoOpencodeKey ==
  ASSUME NEW places, opencode_loadApiKey(places) = "none"
  PROVE  /\ "account key" \notin places /\ "config" \notin places
         /\ "opencode auth" \notin places /\ "OPENCODE_API_KEY" \notin places
BY NoneOfFour DEF opencode_loadApiKey

LEMMA OneRequestLogins ==
  ASSUME NEW p, NEW s \in Setting(p), Fetched(p, s) = "login",
         p \in {"amp", "zai", "synthetic", "openrouter", "ollama", "opencode-go"}
  PROVE  s.places = {} \/ isAuthStatus(s.reply)
<1>1. CASE p = "amp"
  <2>1. s \in OneRequest({"secrets"}) /\ amp_fetch(s) = "login"
    BY <1>1, Zenon DEF Setting, Fetched, LoginScripts
  <2>2. FirstOf(<<"secrets">>, s.places) = "none" \/ isAuthStatus(s.reply)
    BY <2>1, KeyIsAskedFor, Zenon DEF amp_fetch
  <2>3. ASSUME FirstOf(<<"secrets">>, s.places) = "none" PROVE "secrets" \notin s.places
    BY <2>3, NoneOfOne
  <2>4. s.places \subseteq {"secrets"}
    BY <2>1, PlacesOfRequest
  <2> QED
    BY <2>2, <2>3, <2>4
<1>2. CASE p = "zai"
  <2>1. s \in OneRequest({"ZAI_API_KEY", "GLM_API_KEY"}) /\ zai_fetch(s) = "login"
    BY <1>2, Zenon DEF Setting, Fetched, LoginScripts
  <2>2. zai_loadApiKey(s.places) = "none" \/ isAuthStatus(s.reply)
    BY <2>1, KeyIsAskedFor, Zenon DEF zai_fetch
  <2>3. ASSUME zai_loadApiKey(s.places) = "none"
        PROVE  "ZAI_API_KEY" \notin s.places /\ "GLM_API_KEY" \notin s.places
    BY <2>3, NoneOfTwo DEF zai_loadApiKey
  <2>4. s.places \subseteq {"ZAI_API_KEY", "GLM_API_KEY"}
    BY <2>1, PlacesOfRequest
  <2> QED
    BY <2>2, <2>3, <2>4
<1>3. CASE p = "synthetic"
  <2>1. /\ s \in OneRequest({"pi auth", "pi models", "factory settings", "opencode auth",
                             "SYNTHETIC_API_KEY"})
        /\ synthetic_fetch(s) = "login"
    BY <1>3, Zenon DEF Setting, Fetched, LoginScripts
  <2>2. synthetic_loadApiKey(s.places) = "none" \/ isAuthStatus(s.reply)
    BY <2>1, KeyIsAskedFor, Zenon DEF synthetic_fetch
  <2>3. ASSUME synthetic_loadApiKey(s.places) = "none"
        PROVE  /\ "pi auth" \notin s.places /\ "pi models" \notin s.places
               /\ "factory settings" \notin s.places /\ "opencode auth" \notin s.places
               /\ "SYNTHETIC_API_KEY" \notin s.places
    BY <2>3, NoSyntheticKey, Zenon
  <2>4. s.places \subseteq {"pi auth", "pi models", "factory settings", "opencode auth",
                            "SYNTHETIC_API_KEY"}
    BY <2>1, PlacesOfRequest
  <2> QED
    BY <2>2, <2>3, <2>4
<1>4. CASE p = "openrouter"
  <2>1. /\ s \in [places : SUBSET {"config", "OPENROUTER_API_KEY"}, reply : Reply, key : Reply]
        /\ openrouter_fetch(s) = "login"
    BY <1>4, Zenon DEF Setting, Fetched, LoginScripts
  <2>2. openrouter_loadApiKey(s.places) = "none" \/ isAuthStatus(s.reply)
    BY <2>1, Zenon DEF openrouter_fetch, fetchCredits, Required
  <2>3. ASSUME openrouter_loadApiKey(s.places) = "none"
        PROVE  "config" \notin s.places /\ "OPENROUTER_API_KEY" \notin s.places
    BY <2>3, NoneOfTwo DEF openrouter_loadApiKey
  <2>4. s.places \subseteq {"config", "OPENROUTER_API_KEY"}
    BY <2>1
  <2> QED
    BY <2>2, <2>3, <2>4
<1>5. CASE p = "ollama"
  <2>1. s \in OneRequest({"OLLAMA_API_KEY", "config"}) /\ ollama_fetch(s) = "login"
    BY <1>5, Zenon DEF Setting, Fetched, LoginScripts
  <2>2. ollama_loadApiKey(s.places) = "none" \/ isAuthStatus(s.reply)
    BY <2>1, KeyIsAskedFor, Zenon DEF ollama_fetch
  <2>3. ASSUME ollama_loadApiKey(s.places) = "none"
        PROVE  "OLLAMA_API_KEY" \notin s.places /\ "config" \notin s.places
    BY <2>3, NoneOfTwo DEF ollama_loadApiKey
  <2>4. s.places \subseteq {"OLLAMA_API_KEY", "config"}
    BY <2>1, PlacesOfRequest
  <2> QED
    BY <2>2, <2>3, <2>4
<1>6. CASE p = "opencode-go"
  <2>1. /\ s \in OneRequest({"account key", "config", "opencode auth", "OPENCODE_API_KEY"})
        /\ opencode_fetch(s) = "login"
    BY <1>6, Zenon DEF Setting, Fetched, LoginScripts
  <2>2. opencode_loadApiKey(s.places) = "none" \/ isAuthStatus("status") \/ isAuthStatus(s.reply)
    BY <2>1, KeyIsAskedFor, Zenon DEF opencode_fetch
  <2>3. ~isAuthStatus("status")
    BY DEF isAuthStatus
  <2>4. ASSUME opencode_loadApiKey(s.places) = "none"
        PROVE  /\ "account key" \notin s.places /\ "config" \notin s.places
               /\ "opencode auth" \notin s.places /\ "OPENCODE_API_KEY" \notin s.places
    BY <2>4, NoOpencodeKey, Zenon
  <2>5. s.places \subseteq {"account key", "config", "opencode auth", "OPENCODE_API_KEY"}
    BY <2>1, PlacesOfRequest
  <2> QED
    BY <2>2, <2>3, <2>4, <2>5
<1> QED
  BY <1>1, <1>2, <1>3, <1>4, <1>5, <1>6

LEMMA ClineLogins ==
  ASSUME NEW s \in ClineSetting, cline_fetch(s) = "login"
  PROVE  s.places = {} \/ isAuthStatus(s.me)
<1>1. resolveToken(s) = "none" \/ isAuthStatus(s.me)
  BY KeyIsAskedFor, Zenon DEF cline_fetch
<1>2. s.places \subseteq {"cline", "usagepal", "CLINE_API_KEY"}
  BY DEF ClineSetting
<1>3. ASSUME resolveToken(s) = "none" PROVE s.places = {}
  <2>1. CASE "cline" \in s.places /\ ~s.expired
    BY <1>3, <2>1 DEF resolveToken
  <2>2. CASE "cline" \in s.places /\ s.expired
    <3>1. FirstOf(<<"CLINE_API_KEY", "cline">>, s.places) = "none"
      BY <1>3, <2>2, Zenon DEF resolveToken
    <3>2. "cline" \notin s.places
      BY <3>1, NoneOfTwo
    <3> QED
      BY <2>2, <3>2
  <2>3. CASE "cline" \notin s.places
    <3>1. FirstOf(<<"usagepal", "CLINE_API_KEY">>, s.places) = "none"
      BY <1>3, <2>3, Zenon DEF resolveToken
    <3>2. "usagepal" \notin s.places /\ "CLINE_API_KEY" \notin s.places
      BY <3>1, NoneOfTwo
    <3> QED
      BY <1>2, <2>3, <3>2
  <2> QED
    BY <2>1, <2>2, <2>3, Zenon
<1> QED
  BY <1>1, <1>3

-----------------------------------------------------------------------------
LEMMA TriesReport ==
  ASSUME NEW replies \in [1..2 -> MinimaxReply], tryUrls(replies) \in {"login", "refused"}
  PROVE  \E i \in 1..2 : replies[i] \in {"401", "refused"}
<1> DEFINE read == {i \in 1..2 : replies[i] \in {"ok", "empty", "refused"}}
           failed == {replies[i] : i \in 1..2}
<1>1. tryUrls(replies) =
        CASE read # {} -> replies[First(read)]
          [] read = {} /\ "401" \in failed /\ failed \cap {"status", "down"} = {} -> "login"
          [] OTHER -> "error"
  BY Zenon DEF tryUrls
<1>2. CASE read # {}
  <2>1. read \in SUBSET Nat
    OBVIOUS
  <2>2. First(read) \in read
    <3> HIDE DEF read
    <3> QED
      BY <1>2, <2>1, FirstIsLeast
  <2>3. tryUrls(replies) = replies[First(read)]
    <3> HIDE DEF read, failed
    <3> QED
      BY <1>1, <1>2
  <2>4. First(read) \in 1..2 /\ replies[First(read)] \in {"ok", "empty", "refused"}
    BY <2>2
  <2>5. replies[First(read)] = "refused"
    <3> HIDE DEF read, failed
    <3> QED
      BY <2>3, <2>4
  <2> HIDE DEF read
  <2> QED
    BY <2>4, <2>5
<1>3. CASE read = {} /\ "401" \in failed
  BY <1>3
<1>4. CASE read = {} /\ "401" \notin failed
  <2>1. tryUrls(replies) = "error"
    <3> HIDE DEF read, failed
    <3> QED
      BY <1>1, <1>4
  <2> QED
    BY <2>1
<1> QED
  BY <1>2, <1>3, <1>4

LEMMA MinimaxLogins ==
  ASSUME NEW s \in MinimaxSetting, minimax_fetch(s) = "login"
  PROVE  s.places = {} \/ \E i \in 1..2 : {s.CN[i], s.GLOBAL[i]} \cap {"401", "refused"} # {}
<1> DEFINE first == minimax_attempt(s, endpointAttempts(s)[1])
           second == minimax_attempt(s, endpointAttempts(s)[2])
<1>1. /\ s.places \subseteq {"MINIMAX_CN_API_KEY", "MINIMAX_API_KEY", "MINIMAX_API_TOKEN"}
      /\ s["CN"] \in [1..2 -> MinimaxReply] /\ s["GLOBAL"] \in [1..2 -> MinimaxReply]
      /\ s["CN"] = s.CN /\ s["GLOBAL"] = s.GLOBAL
  BY DEF MinimaxSetting
<1>2. /\ {endpointAttempts(s)[1], endpointAttempts(s)[2]} = {"CN", "GLOBAL"}
  BY DEF endpointAttempts
<1>3. ASSUME NEW e \in {"CN", "GLOBAL"}, minimax_attempt(s, e) = "login"
      PROVE  \E i \in 1..2 : {s.CN[i], s.GLOBAL[i]} \cap {"401", "refused"} # {}
  <2>1. tryUrls(s[e]) \in {"refused", "login"}
    <3>1. CASE minimax_loadApiKey(s, e) = "none"
      BY <1>3, <3>1 DEF minimax_attempt
    <3>2. CASE minimax_loadApiKey(s, e) # "none"
      BY <1>3, <3>2 DEF minimax_attempt
    <3> QED
      BY <3>1, <3>2
  <2>2. s[e] \in [1..2 -> MinimaxReply]
    BY <1>1
  <2>3. PICK i \in 1..2 : s[e][i] \in {"401", "refused"}
    BY <2>1, <2>2, TriesReport
  <2>4. s[e][i] \in {s.CN[i], s.GLOBAL[i]}
    BY <1>1
  <2> QED
    BY <2>3, <2>4
<1>4. ASSUME minimax_attempt(s, "CN") = "none" PROVE s.places = {}
  <2>1. minimax_loadApiKey(s, "CN") = "none" \/ tryUrls(s["CN"]) = "none"
    BY <1>4 DEF minimax_attempt
  <2>2. tryUrls(s["CN"]) # "none"
    <3> DEFINE replies == s["CN"]
               read == {i \in 1..2 : replies[i] \in {"ok", "empty", "refused"}}
               failed == {replies[i] : i \in 1..2}
    <3>1. tryUrls(replies) =
            CASE read # {} -> replies[First(read)]
              [] read = {} /\ "401" \in failed /\ failed \cap {"status", "down"} = {} -> "login"
              [] OTHER -> "error"
      BY Zenon DEF tryUrls
    <3>2. ASSUME read # {} PROVE replies[First(read)] # "none"
      <4>1. read \in SUBSET Nat
        OBVIOUS
      <4>2. First(read) \in read
        <5> HIDE DEF read
        <5> QED
          BY <3>2, <4>1, FirstIsLeast
      <4> QED
        BY <4>2
    <3> HIDE DEF read, failed, replies
    <3>3. tryUrls(replies) # "none"
      BY <3>1, <3>2
    <3> QED
      BY <3>3 DEF replies
  <2>3. FirstOf(<<"MINIMAX_CN_API_KEY", "MINIMAX_API_KEY", "MINIMAX_API_TOKEN">>, s.places) = "none"
    BY <2>1, <2>2, Zenon DEF minimax_loadApiKey
  <2>4. /\ "MINIMAX_CN_API_KEY" \notin s.places /\ "MINIMAX_API_KEY" \notin s.places
        /\ "MINIMAX_API_TOKEN" \notin s.places
    BY <2>3, NoneOfThree
  <2> QED
    BY <1>1, <2>4
<1>5. minimax_fetch(s) =
        CASE {first, second} = {"none"} -> "login"
          [] "body" \in {first, second} -> "body"
          [] OTHER -> IF first = "none" THEN second ELSE first
  BY Zenon DEF minimax_fetch
<1>6. {first, second} = {minimax_attempt(s, "CN"), minimax_attempt(s, "GLOBAL")}
  BY <1>2
<1> HIDE DEF first, second
<1>7. CASE {first, second} = {"none"}
  BY <1>4, <1>6, <1>7
<1>8. CASE {first, second} # {"none"}
  <2>1. first = "login" \/ second = "login"
    BY <1>5, <1>8
  <2>2. \E e \in {"CN", "GLOBAL"} : minimax_attempt(s, e) = "login"
    BY <1>6, <2>1
  <2> QED
    BY <1>3, <2>2
<1> QED
  BY <1>7, <1>8

LEMMA DevinLogins ==
  ASSUME NEW s \in DevinSetting, devin_fetch(s) = "login"
  PROVE  {s.env, s.file, s.app, s.next} \subseteq {"none", "seen"} \/ "auth" \in {s.env, s.file, s.app, s.next}
<1> DEFINE attempts == <<s.env, s.file, s.app, s.next>>
           tried == {i \in 1..4 : attempts[i] \notin {"none", "seen"}}
           ended == {i \in tried : attempts[i] \in {"ok", "invalid"}}
           sawAuthFailure == \E i \in tried : attempts[i] = "auth"
<1>1. attempts[1] = s.env /\ attempts[2] = s.file /\ attempts[3] = s.app /\ attempts[4] = s.next
  OBVIOUS
<1>2. devin_fetch(s) = CASE ended # {} -> IF attempts[First(ended)] = "ok" THEN "body" ELSE "error"
                         [] ended = {} /\ tried # {} /\ ~sawAuthFailure -> "error"
                         [] OTHER -> "login"
  BY Zenon DEF devin_fetch
<1>3. tried = {} \/ sawAuthFailure
  <2> HIDE DEF tried, ended, sawAuthFailure, attempts
  <2>1. CASE ended # {}
    BY <1>2, <2>1
  <2>2. CASE ended = {}
    BY <1>2, <2>2
  <2> QED
    BY <2>1, <2>2
<1> HIDE DEF attempts
<1>4. CASE tried = {}
  <2>1. \A i \in 1..4 : attempts[i] \in {"none", "seen"}
    BY <1>4
  <2> QED
    BY <1>1, <2>1
<1>5. CASE sawAuthFailure
  <2>1. PICK i \in 1..4 : attempts[i] = "auth"
    BY <1>5
  <2> QED
    BY <1>1, <2>1
<1> QED
  BY <1>3, <1>4, <1>5

-----------------------------------------------------------------------------
LEMMA WhenIn ==
  ASSUME NEW T, NEW c, NEW x, c => x \in T
  PROVE  When(c, x) \in Seq(T)
<1>1. CASE c
  <2>1. <<x>> \in Seq(T)
    BY <1>1
  <2> QED
    BY <1>1, <2>1, Zenon DEF When
<1>2. CASE ~c
  <2>1. <<>> \in Seq(T)
    OBVIOUS
  <2> QED
    BY <1>2, <2>1, Zenon DEF When
<1> QED
  BY <1>1, <1>2

LEMMA JoinIn ==
  ASSUME NEW T, NEW s \in Seq(T), NEW t \in Seq(T)
  PROVE  /\ s \o t \in Seq(T)
         /\ s \o t = <<>> <=> s = <<>> /\ t = <<>>
<1>1. s \o t \in Seq(T) /\ Len(s \o t) = Len(s) + Len(t) /\ Len(s) \in Nat /\ Len(t) \in Nat
  OBVIOUS
<1>2. \A u \in Seq(T) : u = <<>> <=> Len(u) = 0
  OBVIOUS
<1> QED
  BY <1>1, <1>2

LEMMA SomeEntry ==
  ASSUME NEW T, NEW s \in Seq(T), s # <<>>
  PROVE  1 \in DOMAIN s /\ s[1] \in T
OBVIOUS

LEMMA WhenEmpty ==
  ASSUME NEW c, NEW x
  PROVE  When(c, x) = <<>> <=> ~c
<1>1. <<x>> # <<>>
  OBVIOUS
<1> QED
  BY <1>1, Zenon DEF When

LEMMA AntigravityLogins ==
  ASSUME NEW s \in AntigravitySetting, antigravity_fetch(s) = "login"
  PROVE  \/ s.ls = "none" /\ {s.db, s.cached, s.agy} = {"none"}
         \/ {s.db, s.cached, s.agy, s.refresh} \cap {"auth", "refused"} # {}
         \/ "empty" \in {s.db, s.cached, s.refresh, s.agy}
         \/ s.db = "expired" /\ s.refresh \in {"none", "unanswered"}
<1> DEFINE T == {s.db, s.cached, s.agy, s.refresh} \cap CloudReply
           first == When(s.db \in CloudReply, s.db)
           cached == When(s.cached \in CloudReply, s.cached)
           tokens == antigravity_tokens(s)
           renew == refreshTokens(s)
           agy == loadAgyTokens(s)
           asked == tokens \o renew \o agy
           down == asked # <<>> /\ (s.flaky \/ \E i \in DOMAIN asked : asked[i] = "down")
<1>1. /\ s.ls \in {"none", "editor", "tool"} /\ s.db \in {"none", "expired"} \cup CloudReply
      /\ s.cached \in {"none"} \cup CloudReply /\ s.agy \in {"none"} \cup CloudReply
      /\ s.refresh \in {"none", "refused", "unanswered"} \cup CloudReply
  BY DEF AntigravitySetting
<1>2. tokens = IF Answering(first) THEN first ELSE first \o cached
  BY Zenon DEF antigravity_tokens
<1>3. renew = When(/\ s.db # "none" /\ ~Answering(tokens) /\ s.refresh \in CloudReply
                   /\ tokens = <<>> \/ \E i \in DOMAIN tokens : tokens[i] = "auth",
                   s.refresh)
  BY Zenon DEF refreshTokens
<1>4. agy = When(~Answering(tokens \o renew) /\ s.agy \in CloudReply, s.agy)
  BY Zenon DEF loadAgyTokens
<1>5. antigravity_fetch(s) =
        CASE s.ls # "none" \/ \E i \in DOMAIN asked : asked[i] = "models" -> "body"
          [] s.ls = "none" /\ (\A i \in DOMAIN asked : asked[i] # "models") /\ down -> "error"
          [] OTHER -> "login"
  BY Zenon DEF antigravity_fetch
<1> HIDE DEF tokens, renew, agy
<1>6. first \in Seq(T) /\ cached \in Seq(T)
  <2>1. /\ s.db \in CloudReply => s.db \in T
        /\ s.cached \in CloudReply => s.cached \in T
    OBVIOUS
  <2> HIDE DEF T
  <2> QED
    BY <2>1, WhenIn, Zenon
<1>7. tokens \in Seq(T) /\ renew \in Seq(T) /\ agy \in Seq(T)
  <2>1. /\ s.refresh \in CloudReply => s.refresh \in T
        /\ s.agy \in CloudReply => s.agy \in T
    OBVIOUS
  <2> HIDE DEF T, first, cached
  <2>2. first \o cached \in Seq(T)
    BY <1>6, JoinIn
  <2>3. tokens \in Seq(T)
    BY <1>2, <1>6, <2>2, Zenon
  <2>4. renew \in Seq(T)
    BY <1>3, <2>1, WhenIn, Zenon
  <2>5. agy \in Seq(T)
    BY <1>4, <2>1, WhenIn, Zenon
  <2> QED
    BY <2>3, <2>4, <2>5
<1>8. asked \in Seq(T) /\ (asked = <<>> <=> tokens = <<>> /\ renew = <<>> /\ agy = <<>>)
  <2> HIDE DEF T
  <2>1. /\ tokens \o renew \in Seq(T)
        /\ tokens \o renew = <<>> <=> tokens = <<>> /\ renew = <<>>
    BY <1>7, JoinIn
  <2>2. /\ asked \in Seq(T)
        /\ asked = <<>> <=> tokens \o renew = <<>> /\ agy = <<>>
    BY <1>7, <2>1, JoinIn
  <2> QED
    BY <2>1, <2>2
<1> HIDE DEF asked
<1>9. s.ls = "none" /\ (\A i \in DOMAIN asked : asked[i] # "models") /\ ~down
  <2> DEFINE models == \E i \in DOMAIN asked : asked[i] = "models"
  <2>1. (\A i \in DOMAIN asked : asked[i] # "models") <=> ~models
    OBVIOUS
  <2>2. antigravity_fetch(s) =
        CASE s.ls # "none" \/ models -> "body"
          [] s.ls = "none" /\ ~models /\ down -> "error"
          [] OTHER -> "login"
    BY <1>5, <2>1, Zenon
  <2> HIDE DEF models, down
  <2>3. CASE s.ls # "none" \/ models
    BY <2>2, <2>3
  <2>4. CASE s.ls = "none" /\ ~models /\ down
    BY <2>2, <2>4
  <2> QED
    BY <2>1, <2>3, <2>4
<1>10. CASE asked # <<>>
  <2>1. 1 \in DOMAIN asked /\ asked[1] \in T
    BY <1>8, <1>10, SomeEntry
  <2>2. asked[1] # "models" /\ asked[1] # "down"
    BY <1>9, <1>10, <2>1
  <2>3. asked[1] \in {"empty", "auth"}
    BY <2>1, <2>2 DEF CloudReply
  <2> QED
    BY <2>1, <2>3
<1>11. CASE asked = <<>>
  <2>1. tokens = <<>> /\ renew = <<>> /\ agy = <<>>
    BY <1>8, <1>11
  <2>2. ~Answering(<<>>)
    BY DEF Answering
  <2>3. s.db \notin CloudReply /\ s.cached \notin CloudReply
    <3>1. first = <<>> /\ cached = <<>>
      <4> HIDE DEF first, cached, T
      <4>1. first \o cached = <<>> <=> first = <<>> /\ cached = <<>>
        BY <1>6, JoinIn
      <4> QED
        BY <1>2, <2>1, <2>2, <4>1, Zenon
    <3> QED
      BY <3>1, WhenEmpty, Zenon
  <2>4. <<>> \o <<>> = <<>>
    OBVIOUS
  <2>5. s.agy \notin CloudReply
    BY <1>4, <2>1, <2>2, <2>4, WhenEmpty, Zenon
  <2>6. s.db = "none" \/ s.refresh \notin CloudReply
    BY <1>3, <2>1, <2>2, WhenEmpty, Zenon
  <2> QED
    BY <1>1, <1>9, <2>3, <2>5, <2>6
<1> QED
  BY <1>10, <1>11

-----------------------------------------------------------------------------
\* A script that has its figures does not ask for a login.
LEMMA ReturnsNoLogin ==
  ASSUME NEW p \in Script \ LoginScripts, NEW s, NEW o \in Outcomes(p, s)
  PROVE  o.thrown # "login"
<1>1. (\A l : Lines(l).thrown = "none") /\ Thrown("error").thrown = "error"
  BY DEF Lines, Thrown
<1>2. "none" # "login" /\ "error" # "login"
  OBVIOUS
<1>3. CASE p = "amp"
  BY <1>1, <1>2, <1>3, Zenon DEF Outcomes, amp_lines
<1>4. CASE p = "zai"
  BY <1>1, <1>2, <1>4, Zenon DEF Outcomes, zai_lines
<1>5. CASE p = "synthetic"
  <2>1. ASSUME NEW d PROVE synthetic_lines(d).thrown = "none"
    BY <1>1 DEF synthetic_lines
  <2> QED
    BY <1>2, <1>5, <2>1, Zenon DEF Outcomes
<1>6. CASE p = "openrouter"
  BY <1>1, <1>2, <1>6, Zenon DEF Outcomes, openrouter_lines
<1>7. CASE p = "ollama"
  <2>1. ASSUME NEW d PROVE ollama_lines(d).thrown = "none"
    BY <1>1 DEF ollama_lines
  <2> QED
    BY <1>2, <1>7, <2>1, Zenon DEF Outcomes
<1>8. CASE p = "opencode-go"
  BY <1>1, <1>2, <1>8, Zenon DEF Outcomes, opencode_lines
<1>9. CASE p = "minimax"
  BY <1>1, <1>2, <1>9, Zenon DEF Outcomes, minimax_lines
<1>10. CASE p = "cline-pass"
  BY <1>1, <1>2, <1>10, Zenon DEF Outcomes, cline_lines
<1>11. CASE p = "antigravity"
  BY <1>1, <1>2, <1>11, Zenon DEF Outcomes, antigravity_lines
<1>12. CASE p = "devin"
  BY <1>1, <1>2, <1>12, Zenon DEF Outcomes
<1>13. CASE p = "perplexity"
  BY <1>1, <1>2, <1>13, Zenon DEF Outcomes, perplexity_lines
<1>14. CASE p = "jetbrains-ai-assistant"
  BY <1>1, <1>2, <1>14, Zenon DEF Outcomes, jetbrains_lines
<1> QED
  BY <1>3, <1>4, <1>5, <1>6, <1>7, <1>8, <1>9, <1>10, <1>11, <1>12, <1>13, <1>14, Zenon DEF Script

\* What a script has found when it asks for one.
Excused(p, s) == NoCredential(p, s) \/ RefusedBy(p, s) \/ AntigravityGuess(p, s)

LEMMA FetchesExcused ==
  ASSUME NEW p \in Script \ LoginScripts, NEW s \in Setting(p), Fetched(p, s) = "login"
  PROVE  Excused(p, s)
<1>1. CASE p \in {"amp", "zai", "synthetic", "openrouter", "ollama", "opencode-go"}
  <2>1. s.places = {} \/ isAuthStatus(s.reply)
    BY <1>1, OneRequestLogins
  <2>2. NoCredential(p, s) = (s.places = {})
    BY <1>1 DEF NoCredential
  <2>3. RefusedBy(p, s) = isAuthStatus(s.reply)
    BY <1>1 DEF RefusedBy
  <2> QED
    BY <2>1, <2>2, <2>3, Zenon DEF Excused
<1>2. CASE p = "minimax"
  <2>1. s \in MinimaxSetting /\ minimax_fetch(s) = "login"
    BY <1>2, Zenon DEF Setting, Fetched, LoginScripts
  <2>2. s.places = {} \/ \E i \in 1..2 : {s.CN[i], s.GLOBAL[i]} \cap {"401", "refused"} # {}
    BY <2>1, MinimaxLogins
  <2>3. NoCredential(p, s) = (s.places = {})
    BY <1>2 DEF NoCredential
  <2>4. RefusedBy(p, s) = \E i \in 1..2 : {s.CN[i], s.GLOBAL[i]} \cap {"401", "refused"} # {}
    BY <1>2 DEF RefusedBy
  <2> QED
    BY <2>2, <2>3, <2>4, Zenon DEF Excused
<1>3. CASE p = "cline-pass"
  <2>1. s \in ClineSetting /\ cline_fetch(s) = "login"
    BY <1>3, Zenon DEF Setting, Fetched, LoginScripts
  <2>2. s.places = {} \/ isAuthStatus(s.me)
    BY <2>1, ClineLogins
  <2>3. NoCredential(p, s) = (s.places = {})
    BY <1>3 DEF NoCredential
  <2>4. RefusedBy(p, s) = isAuthStatus(s.me)
    BY <1>3 DEF RefusedBy
  <2> QED
    BY <2>2, <2>3, <2>4, Zenon DEF Excused
<1>4. CASE p = "antigravity"
  <2>1. s \in AntigravitySetting /\ antigravity_fetch(s) = "login"
    BY <1>4, Zenon DEF Setting, Fetched, LoginScripts
  <2>2. \/ s.ls = "none" /\ {s.db, s.cached, s.agy} = {"none"}
        \/ {s.db, s.cached, s.agy, s.refresh} \cap {"auth", "refused"} # {}
        \/ "empty" \in {s.db, s.cached, s.refresh, s.agy}
        \/ s.db = "expired" /\ s.refresh \in {"none", "unanswered"}
    BY <2>1, AntigravityLogins
  <2>3. NoCredential(p, s) = (s.ls = "none" /\ {s.db, s.cached, s.agy} = {"none"})
    BY <1>4 DEF NoCredential
  <2>4. RefusedBy(p, s) = ({s.db, s.cached, s.agy, s.refresh} \cap {"auth", "refused"} # {})
    BY <1>4 DEF RefusedBy
  <2>5. AntigravityGuess(p, s) = ("empty" \in {s.db, s.cached, s.refresh, s.agy}
                                  \/ (s.db = "expired" /\ s.refresh \in {"none", "unanswered"}))
    BY <1>4 DEF AntigravityGuess
  <2> QED
    BY <2>2, <2>3, <2>4, <2>5, Zenon DEF Excused
<1>5. CASE p = "devin"
  <2>1. s \in DevinSetting /\ devin_fetch(s) = "login"
    BY <1>5, Zenon DEF Setting, Fetched, LoginScripts
  <2>2. \/ {s.env, s.file, s.app, s.next} \subseteq {"none", "seen"}
        \/ "auth" \in {s.env, s.file, s.app, s.next}
    BY <2>1, DevinLogins
  <2>3. NoCredential(p, s) = ({s.env, s.file, s.app, s.next} \subseteq {"none", "seen"})
    BY <1>5 DEF NoCredential
  <2>4. RefusedBy(p, s) = ("auth" \in {s.env, s.file, s.app, s.next})
    BY <1>5 DEF RefusedBy
  <2> QED
    BY <2>2, <2>3, <2>4, Zenon DEF Excused
<1>6. CASE p = "perplexity"
  <2>1. s \in PerplexitySetting /\ perplexity_fetch(s) = "login"
    BY <1>6, Zenon DEF Setting, Fetched, LoginScripts
  <2>2. FirstOf(<<"container", "caches">>, s.places) = "none"
    BY <2>1, Zenon DEF perplexity_fetch, loadLocalSession
  <2>3. "container" \notin s.places /\ "caches" \notin s.places
    <3> HIDE DEF Excused
    <3> QED
      BY <2>2, NoneOfTwo
  <2>4. s.places \subseteq {"container", "caches"}
    BY <2>1 DEF PerplexitySetting
  <2>5. s.places = {}
    BY <2>3, <2>4
  <2>6. NoCredential(p, s) = (s.places = {})
    BY <1>6 DEF NoCredential
  <2> QED
    BY <2>5, <2>6, Zenon DEF Excused
<1>7. CASE p = "jetbrains-ai-assistant"
  <2>1. jetbrains_fetch(s) = "login"
    BY <1>7, Zenon DEF Fetched, LoginScripts
  <2>2. s.files = <<>>
    BY <2>1, Zenon DEF jetbrains_fetch
  <2>3. NoCredential(p, s) = (s.files = <<>>)
    BY <1>7 DEF NoCredential
  <2> QED
    BY <2>2, <2>3, Zenon DEF Excused
<1> QED
  BY <1>1, <1>2, <1>3, <1>4, <1>5, <1>6, <1>7, Zenon DEF Script

\* An outage does not read as signed out: whatever a server does not answer,
\* a script asks for a login or a key only if it found none, or if a server
\* refused the one it found.
THEOREM OutagesAreNotLogouts == ScriptSpec => []OutageIsNotLogout
<1>1. ScriptInit => OutageIsNotLogout
  BY Zenon DEF ScriptInit, OutageIsNotLogout
<1>2. ASSUME ScriptInv, OutageIsNotLogout, [ScriptNext]_scriptVars PROVE OutageIsNotLogout'
  <2>1. CASE Fetch
    <3>1. CASE Fetched(script, setting) = "body"
      <4>1. stage' = "answered"
        BY <2>1, <3>1 DEF Fetch
      <4> QED
        BY <4>1, Zenon DEF OutageIsNotLogout
    <3>2. CASE Fetched(script, setting) # "body"
      <4>1. /\ stage = "called" /\ outcome' = Thrown(Fetched(script, setting))
            /\ script' = script /\ setting' = setting
        BY <2>1, <3>2 DEF Fetch
      <4>2. outcome'.thrown = Fetched(script, setting)
        BY <4>1 DEF Thrown
      <4>3. script \in Script /\ setting \in Setting(script)
        BY <1>2, <4>1 DEF ScriptInv
      <4>4. script \notin LoginScripts /\ outcome'.thrown = "login" => Excused(script, setting)
        BY <4>2, <4>3, FetchesExcused, Zenon
      <4> QED
        BY <4>1, <4>4, Zenon DEF OutageIsNotLogout, Excused
    <3> QED
      BY <3>1, <3>2
  <2>2. CASE Return
    <3>1. script' = script /\ outcome' \in Outcomes(script, setting) /\ script \in Script
      BY <1>2, <2>2 DEF Return, ScriptInv
    <3>2. script \notin LoginScripts => outcome'.thrown # "login"
      BY <3>1, ReturnsNoLogin, Zenon
    <3> QED
      BY <3>1, <3>2, Zenon DEF OutageIsNotLogout
  <2>3. CASE UNCHANGED scriptVars
    <3>1. script' = script /\ setting' = setting /\ stage' = stage /\ outcome' = outcome
      BY <2>3 DEF scriptVars
    <3> QED
      BY <1>2, <3>1, Zenon DEF OutageIsNotLogout
  <2> QED
    BY <1>2, <2>1, <2>2, <2>3 DEF ScriptNext
<1> QED
  BY <1>1, <1>2, ScriptInvIsKept, PTL DEF ScriptSpec
=============================================================================
