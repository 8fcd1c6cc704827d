------------------------- MODULE ReadCache_proofs -------------------------
(***************************************************************************)
(* What the read cache promises a screen, for any paths, times to live,    *)
(* accounts, requests under way at once and changes on the server: how old *)
(* what it shows may be, that a write is seen by those who made it, and    *)
(* that nobody is shown what was read for another account.                 *)
(***************************************************************************)
EXTENDS ReadCache, TLAPS

-----------------------------------------------------------------------------
(* The strengthenings.                                                     *)

\* A body in localStorage lives for its time to live after it was read.  One in
\* memory was read when the cache thinks, or was promoted, and is then at most
\* a time to live, less the threshold, older than the cache thinks.
AgesKnown ==
    /\ \A p \in Paths : l2[p].kind = "kept" => l2[p].left + l2[p].real = TTL[p]
    /\ \A p \in Paths : mem[p].kind = "kept" =>
          \/ mem[p].real <= mem[p].age
          \/ mem[p].real + Threshold <= mem[p].age + TTL[p]

\* inFlight knows of a path only a request for it that somebody waits for.
JoinedFits ==
    \A p \in Paths : joined[p] # 0 =>
        /\ flights[joined[p]].phase # "idle"
        /\ flights[joined[p]].p = p /\ ~flights[joined[p]].behind

\* Where no read overlapped a write, whatever may still be shown was answered
\* after the last write that is done.
NothingBefore ==
    /\ \A p \in Paths : seen[p] <= served[p]
    /\ \A p \in Paths \ overlapped :
          /\ mem[p].kind = "kept" => mem[p].v >= seen[p]
          /\ l2[p].kind = "kept" => l2[p].v >= seen[p]
          /\ other[p].kind = "kept" => other[p].v >= seen[p]
    /\ \A s \in Requests :
          (flights[s].phase = "answered" /\ flights[s].p \notin overlapped) =>
              flights[s].v >= seen[flights[s].p]

\* While a write through apiFetch is under way, the paths it makes void are
\* nowhere to be read, unless a read overlapped it.
VoidWhileWriting ==
    write.phase # "idle" =>
        /\ write.made \subseteq Invalidated(write.area)
        /\ ~write.raw => \A p \in Invalidated(write.area) \ overlapped :
              /\ mem[p].kind # "kept" /\ l2[p].kind # "kept"
              /\ other[p].kind # "kept" /\ ~BeingRead(p)

\* What is kept and did not stray was read for the account signed in.
OwnAccount ==
    \A p \in Paths \ strays :
        /\ mem[p].kind = "kept" => mem[p].u = user
        /\ l2[p].kind = "kept" => l2[p].u = user

\* What the proof about the writes carries along.
WritesSeen == NothingBefore /\ VoidWhileWriting /\ OwnApiWritesSeen

\* The inductive invariant.
CacheInv ==
    /\ CacheTypeOK /\ JoinedFits
    /\ AgesKnown /\ StaleBound
    /\ WritesSeen
    /\ OwnAccount /\ SessionIsolation

-----------------------------------------------------------------------------
(* What the operators give.                                                *)

\* What a scene names are paths, requests and accounts of the browser.
LEMMA SceneFits ==
    ASSUME CacheTypeOK
    PROVE  /\ cacheScene.paths \subseteq Paths /\ cacheScene.slots \subseteq Requests
           /\ cacheScene.accounts \subseteq Accounts /\ cacheScene.writes \subseteq Writable
           /\ cacheScene.top \in 0..MaxChanges
  BY CacheAssumption DEF CacheTypeOK

\* An entry of the memory that is kept has a body, an age and a real age.
LEMMA MemKept ==
    ASSUME NEW e \in MemEntry, e.kind = "kept"
    PROVE  e.v \in 0..MaxChanges /\ e.u \in Accounts /\ e.age \in Nat /\ e.real \in Nat
  BY DEF MemEntry, Absent, Gone

\* So has an entry of localStorage, with the time it has left.
LEMMA L2Kept ==
    ASSUME NEW e \in L2Entry, e.kind = "kept"
    PROVE  e.v \in 0..MaxChanges /\ e.u \in Accounts /\ e.left \in Nat /\ e.real \in Nat
  BY DEF L2Entry, Absent

\* What apiFetch finds is an entry: that of the memory, or the promoted one.
LEMMA FoundFits ==
    ASSUME CacheTypeOK, NEW p \in Paths
    PROVE  /\ Found(p) \in MemEntry
           /\ Found(p) # mem[p] =>
                 /\ l2[p].kind = "kept"
                 /\ Found(p) = Promoted(p)
  <1>1. mem[p] \in MemEntry /\ l2[p] \in L2Entry
    BY DEF CacheTypeOK
  <1>2. l2[p].kind = "kept" => Promoted(p) \in MemEntry
    BY <1>1, L2Kept, CacheAssumption DEF Promoted, Kept, MemEntry
  <1> QED
    BY <1>1, <1>2 DEF Found, Readable

\* A request under way is for a path and for an account.
LEMMA FlightFits ==
    ASSUME CacheTypeOK, NEW s \in Requests, flights[s].phase # "idle"
    PROVE  /\ flights[s].p \in Paths /\ flights[s].u \in Accounts
           /\ flights[s].behind \in BOOLEAN
           /\ flights[s].phase = "answered" => flights[s].v \in 0..MaxChanges
           /\ flights[s].phase = "sent" \/ flights[s].phase = "answered"
  BY DEF CacheTypeOK, ReadRequest, NoFlight

\* So is what another tab is about to store.
LEMMA OtherFits ==
    ASSUME CacheTypeOK, NEW p \in Paths, other[p].kind # "none"
    PROVE  other[p].kind = "kept" /\ other[p].v \in 0..MaxChanges /\ other[p].u \in Accounts
  BY DEF CacheTypeOK, OtherBody, Absent

\* A read that is sent takes a free request.
LEMMA ReadSent ==
    ASSUME CacheTypeOK, NEW s \in Requests, NEW p \in Paths, NEW b, SendRead(s, p, b)
    PROVE  /\ flights[s].phase = "idle"
           /\ flights' = [flights EXCEPT ![s] =
                 [phase |-> "sent", p |-> p, u |-> user, behind |-> b]]
           /\ overlapped' \subseteq Paths /\ overlapped \subseteq overlapped'
           /\ write.phase # "idle" => p \in overlapped'
           /\ \A q \in Paths : q \in overlapped' => q \in overlapped \/ q = p
  BY DEF CacheTypeOK, SendRead, FreeSlot, Flight

-----------------------------------------------------------------------------
(* The types, and what inFlight knows.                                     *)

\* At the start nothing is kept, nothing is under way and nobody waits.
LEMMA InitTyped == CacheInit => CacheTypeOK /\ JoinedFits
  BY CacheAssumption
  DEF CacheInit, CacheTypeOK, JoinedFits, MemEntry, L2Entry, OtherBody, ReadRequest,
      WriteRequest, GivenBody, Absent, NoFlight, NoWrite, Nothing

\* Every step leaves a state of the right types, where inFlight knows of a path
\* only a request for it that somebody waits for.
LEMMA StepTyped ==
    ASSUME CacheTypeOK, JoinedFits, [CacheNext]_cacheVars
    PROVE  CacheTypeOK' /\ JoinedFits'
  <1> USE CacheAssumption
  <1>0. /\ cacheScene.paths \subseteq Paths /\ cacheScene.slots \subseteq Requests
        /\ cacheScene.accounts \subseteq Accounts /\ cacheScene.writes \subseteq Writable
        /\ cacheScene.top \in 0..MaxChanges
    BY SceneFits
  <1>1. ASSUME NEW p \in Paths, ReadHit(p)
        PROVE  CacheTypeOK' /\ JoinedFits'
    <2>1. Found(p) \in MemEntry /\ Found(p).kind = "kept"
      BY <1>1, FoundFits DEF ReadHit, Live
    <2>2. mem' \in [Paths -> MemEntry] /\ handed' \in GivenBody
      BY <1>1, <2>1, MemKept DEF ReadHit, Given, GivenBody, CacheTypeOK
    <2>3. CASE UNCHANGED <<flights, overlapped>>
      BY <1>1, <2>2, <2>3 DEF ReadHit, CacheTypeOK, JoinedFits
    <2>4. ASSUME NEW s \in cacheScene.slots, SendRead(s, p, TRUE)
          PROVE  CacheTypeOK' /\ JoinedFits'
      <3>1. s \in Requests /\ user # SignedOut
        BY <1>0, <1>1, <2>4 DEF ReadHit
      <3>2. /\ flights[s].phase = "idle"
            /\ flights' = [flights EXCEPT ![s] =
                  [phase |-> "sent", p |-> p, u |-> user, behind |-> TRUE]]
            /\ overlapped' \subseteq Paths
        BY <2>4, <3>1, ReadSent
      <3>3. flights' \in [Requests -> ReadRequest]
        BY <3>1, <3>2 DEF CacheTypeOK, ReadRequest
      <3> QED
        BY <1>1, <2>2, <3>2, <3>3 DEF ReadHit, CacheTypeOK, JoinedFits
    <2> QED
      BY <1>1, <2>3, <2>4 DEF ReadHit
  <1>2. ASSUME NEW p \in Paths, NEW s \in Requests, ReadMiss(p, s)
        PROVE  CacheTypeOK' /\ JoinedFits'
    <2>1. Found(p) \in MemEntry
      BY FoundFits
    <2>2. mem' \in [Paths -> MemEntry] /\ handed' \in GivenBody
      BY <1>2, <2>1 DEF ReadMiss, MemEntry, Nothing, GivenBody, CacheTypeOK
    <2>3. /\ flights[s].phase = "idle"
          /\ flights' = [flights EXCEPT ![s] =
                [phase |-> "sent", p |-> p, u |-> user, behind |-> FALSE]]
          /\ overlapped' \subseteq Paths
      BY <1>2, ReadSent DEF ReadMiss
    <2>4. flights \in [Requests -> ReadRequest] /\ joined \in [Paths -> Requests \cup {0}]
      BY DEF CacheTypeOK
    <2>5. JoinedFits'
      BY <1>2, <2>3, <2>4 DEF ReadMiss, JoinedFits
    <2>6. flights' \in [Requests -> ReadRequest]
      BY <1>2, <2>3 DEF ReadMiss, CacheTypeOK, ReadRequest
    <2> QED
      BY <1>2, <2>2, <2>3, <2>4, <2>5, <2>6 DEF ReadMiss, CacheTypeOK, JoinedFits
  <1>3. ASSUME NEW p \in Paths, Peek(p)
        PROVE  CacheTypeOK' /\ JoinedFits'
    <2>1. mem[p] \in MemEntry /\ l2[p] \in L2Entry
      BY DEF CacheTypeOK
    <2>2. l2[p].kind = "kept" => Promoted(p) \in MemEntry
      BY <2>1, L2Kept DEF Promoted, Kept, MemEntry
    <2>3. handed' \in GivenBody
      BY <1>3, <2>1, L2Kept, MemKept DEF Peek, Live, Readable, Given, GivenBody
    <2>4. mem' \in [Paths -> MemEntry]
      BY <1>3, <2>1, <2>2 DEF Peek, Readable, MemEntry, CacheTypeOK
    <2> QED
      BY <1>3, <2>3, <2>4 DEF Peek, CacheTypeOK, JoinedFits
  <1>4. ASSUME NEW s \in Requests, ServerAnswer(s)
        PROVE  CacheTypeOK' /\ JoinedFits'
    <2>1. flights[s].p \in Paths /\ flights[s].u \in Accounts /\ flights[s].behind \in BOOLEAN
      BY <1>4, FlightFits DEF ServerAnswer
    <2>2. flights' \in [Requests -> ReadRequest]
      BY <1>4, <2>1 DEF ServerAnswer, ReadRequest, CacheTypeOK
    <2> QED
      BY <1>4, <2>2 DEF ServerAnswer, CacheTypeOK, JoinedFits, Nothing, GivenBody
  <1>5. ASSUME NEW s \in Requests, DeliverRead(s)
        PROVE  CacheTypeOK' /\ JoinedFits'
    <2>1. /\ flights[s].p \in Paths /\ flights[s].u \in Accounts
          /\ flights[s].behind \in BOOLEAN /\ flights[s].v \in 0..MaxChanges
      BY <1>5, FlightFits DEF DeliverRead
    <2> DEFINE p == flights[s].p
    <2>2. Kept(flights[s], 0, 0) \in MemEntry /\ Stored(flights[s], TTL[p], 0) \in L2Entry
      BY <2>1 DEF Kept, Stored, MemEntry, L2Entry
    <2>3. mem' \in [Paths -> MemEntry] /\ l2' \in [Paths -> L2Entry]
      BY <1>5, <2>1, <2>2 DEF DeliverRead, CacheTypeOK, MemEntry
    <2>4. handed' \in GivenBody
      BY <1>5, <2>1 DEF DeliverRead, Given, Nothing, GivenBody
    <2>5. flights' \in [Requests -> ReadRequest] /\ flights' = [flights EXCEPT ![s] = NoFlight]
      BY <1>5 DEF DeliverRead, CacheTypeOK, ReadRequest
    <2>6. joined' \in [Paths -> Requests \cup {0}]
      BY <1>5 DEF DeliverRead, CacheTypeOK
    <2>7. JoinedFits'
      BY <1>5, <2>1, <2>5, <2>6 DEF DeliverRead, JoinedFits, CacheTypeOK
    <2>8. strays' \subseteq Paths
      BY <1>5, <2>1 DEF DeliverRead, CacheTypeOK
    <2> QED
      BY <1>5, <2>3, <2>4, <2>5, <2>6, <2>7, <2>8 DEF DeliverRead, CacheTypeOK, JoinedFits
  <1>6. ASSUME NEW s \in Requests, ReadFails(s)
        PROVE  CacheTypeOK' /\ JoinedFits'
    <2>1. flights[s].p \in Paths /\ flights[s].behind \in BOOLEAN
      BY <1>6, FlightFits DEF ReadFails
    <2>2. /\ flights' \in [Requests -> ReadRequest]
          /\ flights' = [flights EXCEPT ![s] = NoFlight]
          /\ joined' \in [Paths -> Requests \cup {0}]
      BY <1>6 DEF ReadFails, CacheTypeOK, ReadRequest
    <2>3. JoinedFits'
      BY <1>6, <2>1, <2>2 DEF ReadFails, JoinedFits, CacheTypeOK
    <2> QED
      BY <1>6, <2>2, <2>3 DEF ReadFails, CacheTypeOK, JoinedFits, Nothing, GivenBody
  <1>7. ASSUME NEW area \in Writable, NEW raw \in BOOLEAN, SendWrite(area, raw)
        PROVE  CacheTypeOK' /\ JoinedFits'
    <2>1. Void(area, raw) \subseteq Paths
      BY DEF Void, Invalidated
    <2>2. /\ mem' \in [Paths -> MemEntry] /\ l2' \in [Paths -> L2Entry]
          /\ joined' \in [Paths -> Requests \cup {0}]
          /\ \A p \in Paths : joined'[p] # 0 => joined'[p] = joined[p]
      BY <1>7 DEF SendWrite, Clear, CacheTypeOK, MemEntry, L2Entry
    <2>3. write' \in WriteRequest
      BY <1>7 DEF SendWrite, WriteRequest
    <2>4. overlapped' \subseteq Paths
      BY <1>7 DEF SendWrite, CacheTypeOK
    <2> QED
      BY <1>7, <2>2, <2>3, <2>4 DEF SendWrite, CacheTypeOK, JoinedFits, Nothing, GivenBody
  <1>8. ASSUME NEW C \in SUBSET Paths, ServerApplies(C)
        PROVE  CacheTypeOK' /\ JoinedFits'
    <2>1. served' \in [Paths -> 0..MaxChanges]
      BY <1>0, <1>8 DEF ServerApplies, CacheTypeOK
    <2>2. write' \in WriteRequest
      <3>1. write \in [phase : {"sent", "applied"}, area : Writable, raw : BOOLEAN,
                        made : SUBSET Paths]
        BY <1>8 DEF ServerApplies, CacheTypeOK, WriteRequest, NoWrite
      <3> QED
        BY <1>8, <3>1 DEF ServerApplies, WriteRequest
    <2> QED
      BY <1>8, <2>1, <2>2 DEF ServerApplies, CacheTypeOK, JoinedFits, Nothing, GivenBody
  <1>9. ASSUME DeliverWrite
        PROVE  CacheTypeOK' /\ JoinedFits'
    BY <1>9 DEF DeliverWrite, CacheTypeOK, JoinedFits, Nothing, GivenBody, NoWrite,
                WriteRequest
  <1>10. ASSUME FailWrite
         PROVE  CacheTypeOK' /\ JoinedFits'
    BY <1>10 DEF FailWrite, CacheTypeOK, JoinedFits, Nothing, GivenBody, NoWrite,
                 WriteRequest
  <1>11. ASSUME Logout
         PROVE  CacheTypeOK' /\ JoinedFits'
    <2>1. /\ mem' = [p \in Paths |-> Absent] /\ l2' = [p \in Paths |-> Absent]
          /\ joined' = [p \in Paths |-> 0]
      BY <1>11 DEF Logout, Clear
    <2> QED
      BY <1>11, <2>1 DEF Logout, CacheTypeOK, JoinedFits, Nothing, GivenBody,
                         MemEntry, L2Entry
  <1>12. ASSUME NEW u \in Accounts, Login(u)
         PROVE  CacheTypeOK' /\ JoinedFits'
    BY <1>12 DEF Login, CacheTypeOK, JoinedFits, Nothing, GivenBody
  <1>13. ASSUME NEW p \in Paths, NEW u \in Accounts, OtherTabReads(p, u)
         PROVE  CacheTypeOK' /\ JoinedFits'
    <2>1. other' \in [Paths -> OtherBody] /\ overlapped' \subseteq Paths
      BY <1>13 DEF OtherTabReads, CacheTypeOK, OtherBody
    <2> QED
      BY <1>13, <2>1 DEF OtherTabReads, CacheTypeOK, JoinedFits, Nothing, GivenBody
  <1>14. ASSUME NEW p \in Paths, OtherTabStores(p)
         PROVE  CacheTypeOK' /\ JoinedFits'
    <2>1. other[p].v \in 0..MaxChanges /\ other[p].u \in Accounts
      BY <1>14, OtherFits DEF OtherTabStores
    <2>2. l2' \in [Paths -> L2Entry]
      BY <1>14, <2>1 DEF OtherTabStores, CacheTypeOK, Stored, L2Entry
    <2>3. other' \in [Paths -> OtherBody] /\ strays' \subseteq Paths
      BY <1>14 DEF OtherTabStores, CacheTypeOK, OtherBody
    <2> QED
      BY <1>14, <2>2, <2>3 DEF OtherTabStores, CacheTypeOK, JoinedFits, Nothing, GivenBody
  <1>15. ASSUME NEW p \in Paths, OtherTabClears(p)
         PROVE  CacheTypeOK' /\ JoinedFits'
    BY <1>15 DEF OtherTabClears, CacheTypeOK, JoinedFits, Nothing, GivenBody, L2Entry
  <1>16. ASSUME NEW p \in Paths, OthersWrite(p)
         PROVE  CacheTypeOK' /\ JoinedFits'
    BY <1>0, <1>16 DEF OthersWrite, CacheTypeOK, JoinedFits, Nothing, GivenBody
  <1>17. ASSUME Tick
         PROVE  CacheTypeOK' /\ JoinedFits'
    <2>1. ASSUME NEW p \in Paths
          PROVE  Aged(mem[p], p) \in MemEntry /\ Faded(l2[p]) \in L2Entry
      <3>1. mem[p] \in MemEntry /\ l2[p] \in L2Entry
        BY DEF CacheTypeOK
      <3>2. Aged(mem[p], p) \in MemEntry
        BY <3>1, MemKept DEF Aged, Kept, MemEntry
      <3>3. Faded(l2[p]) \in L2Entry
        BY <3>1, L2Kept DEF Faded, Stored, L2Entry
      <3> QED
        BY <3>2, <3>3
    <2>2. mem' \in [Paths -> MemEntry] /\ l2' \in [Paths -> L2Entry]
      BY <1>17, <2>1 DEF Tick
    <2> QED
      BY <1>17, <2>2 DEF Tick, CacheTypeOK, JoinedFits, Nothing, GivenBody
  <1>18. ASSUME UNCHANGED cacheVars
         PROVE  CacheTypeOK' /\ JoinedFits'
    BY <1>18 DEF cacheVars, CacheTypeOK, JoinedFits
  <1>19. ASSUME NEW u \in Accounts, LoginOver(u)
         PROVE  CacheTypeOK' /\ JoinedFits'
    <2>1. /\ mem' = [p \in Paths |-> Absent] /\ joined' = [p \in Paths |-> 0]
          /\ flights' = [s \in Requests |-> NoFlight]
      BY <1>19 DEF LoginOver
    <2>2. strays' \subseteq Paths
      BY <1>19 DEF LoginOver, CacheTypeOK
    <2> QED
      BY <1>19, <2>1, <2>2 DEF LoginOver, CacheTypeOK, JoinedFits, Nothing, GivenBody,
                               MemEntry, ReadRequest
  <1> QED
    BY <1>0, <1>1, <1>2, <1>3, <1>4, <1>5, <1>6, <1>7, <1>8, <1>9, <1>10, <1>11,
       <1>12, <1>13, <1>14, <1>15, <1>16, <1>17, <1>18, <1>19 DEF CacheNext

-----------------------------------------------------------------------------
(* How old a body may be.                                                  *)

\* What apiFetch finds is as old as the cache thinks, or was promoted.
LEMMA FoundAges ==
    ASSUME CacheTypeOK, AgesKnown, NEW p \in Paths, Found(p).kind = "kept"
    PROVE  \/ Found(p).real <= Found(p).age
           \/ Found(p).real + Threshold <= Found(p).age + TTL[p]
  <1>1. CASE Found(p) = mem[p]
    BY <1>1 DEF AgesKnown
  <1>2. CASE Found(p) # mem[p]
    <2>1. l2[p].kind = "kept" /\ Found(p) = Promoted(p) /\ l2[p] \in L2Entry
      BY <1>2, FoundFits DEF CacheTypeOK
    <2>2. l2[p].left + l2[p].real = TTL[p] /\ l2[p].left \in Nat /\ l2[p].real \in Nat
      BY <2>1, L2Kept DEF AgesKnown
    <2> QED
      BY <2>1, <2>2, CacheAssumption DEF Promoted, Kept
  <1> QED
    BY <1>1, <1>2

\* A step that touches neither store and hands out nothing.
LEMMA AgesStay ==
    ASSUME AgesKnown, UNCHANGED <<mem, l2>>, handed' = Nothing
    PROVE  AgesKnown' /\ StaleBound'
  BY DEF AgesKnown, StaleBound, Nothing

\* Every step keeps the bounds on the ages.
LEMMA StepAges ==
    ASSUME CacheTypeOK, AgesKnown, StaleBound, [CacheNext]_cacheVars
    PROVE  AgesKnown' /\ StaleBound'
  <1> USE CacheAssumption
  <1>0. /\ cacheScene.paths \subseteq Paths /\ cacheScene.slots \subseteq Requests
        /\ mem \in [Paths -> MemEntry] /\ l2 \in [Paths -> L2Entry]
    BY SceneFits DEF CacheTypeOK
  <1>1. ASSUME NEW p \in Paths, ReadHit(p)
        PROVE  AgesKnown' /\ StaleBound'
    <2>1. /\ Found(p) \in MemEntry /\ Found(p).kind = "kept" /\ Found(p).age < TTL[p]
          /\ mem' = [mem EXCEPT ![p] = Found(p)] /\ UNCHANGED l2
          /\ handed' = Given(p, Found(p), Found(p).real)
      BY <1>1, FoundFits DEF ReadHit, Live
    <2>2. \/ Found(p).real <= Found(p).age
          \/ Found(p).real + Threshold <= Found(p).age + TTL[p]
      BY <2>1, FoundAges
    <2>3. AgesKnown'
      BY <1>0, <2>1, <2>2 DEF AgesKnown
    <2>4. StaleBound'
      BY <2>1, <2>2, MemKept DEF StaleBound, Given
    <2> QED
      BY <2>3, <2>4
  <1>2. ASSUME NEW p \in Paths, NEW s \in Requests, ReadMiss(p, s)
        PROVE  AgesKnown' /\ StaleBound'
    <2>1. mem' = [mem EXCEPT ![p] = IF Found(p).kind = "kept" THEN Gone ELSE Found(p)]
      BY <1>2 DEF ReadMiss
    <2>2. handed' = Nothing /\ UNCHANGED l2
      BY <1>2 DEF ReadMiss
    <2> QED
      BY <1>0, <2>1, <2>2 DEF AgesKnown, StaleBound, Nothing, Gone
  <1>3. ASSUME NEW p \in Paths, Peek(p)
        PROVE  AgesKnown' /\ StaleBound'
    <2>1. mem[p] \in MemEntry /\ l2[p] \in L2Entry
      BY <1>0
    <2>2. CASE Live(mem[p], p) /\ handed' = Given(p, mem[p], mem[p].real) /\ UNCHANGED mem
      <3>1. /\ mem[p].age \in Nat /\ mem[p].real \in Nat /\ mem[p].age < TTL[p]
            /\ mem[p].kind = "kept"
        BY <2>1, <2>2, MemKept DEF Live
      <3>2. StaleBound'
        BY <2>2, <3>1 DEF StaleBound, Given, AgesKnown
      <3>3. UNCHANGED l2
        BY <1>3 DEF Peek
      <3> QED
        BY <2>2, <3>2, <3>3 DEF AgesKnown
    <2>3. CASE /\ Readable(p) /\ handed' = Given(p, l2[p], l2[p].real)
               /\ mem' = [mem EXCEPT ![p] = IF Threshold < TTL[p] THEN Promoted(p) ELSE Gone]
      <3>1. /\ l2[p].kind = "kept" /\ l2[p].left + l2[p].real = TTL[p]
            /\ l2[p].left \in Nat /\ l2[p].real \in Nat
        BY <2>1, <2>3, L2Kept DEF Readable, AgesKnown
      <3>2. StaleBound'
        BY <2>3, <3>1 DEF StaleBound, Given
      <3>3. UNCHANGED l2
        BY <1>3 DEF Peek
      <3> QED
        BY <1>0, <2>3, <3>1, <3>2, <3>3 DEF AgesKnown, Promoted, Kept, Gone
    <2> QED
      BY <1>3, <2>2, <2>3 DEF Peek
  <1>4. ASSUME NEW s \in Requests, DeliverRead(s)
        PROVE  AgesKnown' /\ StaleBound'
    <2> DEFINE p == flights[s].p
    <2>1. p \in Paths
      BY <1>4, FlightFits DEF DeliverRead
    <2>2. /\ mem' = [mem EXCEPT ![p] = IF TTL[p] > 0 THEN Kept(flights[s], 0, 0) ELSE Gone]
          /\ \/ l2' = [l2 EXCEPT ![p] = Stored(flights[s], TTL[p], 0)]
             \/ l2' = l2
          /\ handed' = Nothing \/ handed' = Given(p, flights[s], 0)
      BY <1>4 DEF DeliverRead
    <2>3. StaleBound'
      BY <2>1, <2>2 DEF StaleBound, Given, Nothing
    <2>4. AgesKnown'
      BY <1>0, <2>1, <2>2 DEF AgesKnown, Kept, Stored, Gone
    <2> QED
      BY <2>3, <2>4
  <1>5. ASSUME NEW p \in Paths, OtherTabStores(p)
        PROVE  AgesKnown' /\ StaleBound'
    <2>1. l2' = [l2 EXCEPT ![p] = Stored(other[p], TTL[p], 0)] /\ UNCHANGED mem
      BY <1>5 DEF OtherTabStores
    <2>2. handed' = Nothing
      BY <1>5 DEF OtherTabStores
    <2> QED
      BY <1>0, <2>1, <2>2 DEF AgesKnown, StaleBound, Nothing, Stored
  <1>6. ASSUME NEW p \in Paths, OtherTabClears(p)
        PROVE  AgesKnown' /\ StaleBound'
    BY <1>0, <1>6 DEF OtherTabClears, AgesKnown, StaleBound, Nothing, Absent
  <1>7. ASSUME NEW area, NEW raw, SendWrite(area, raw)
        PROVE  AgesKnown' /\ StaleBound'
    <2>1. /\ \A p \in Paths : mem'[p] = mem[p] \/ mem'[p] = Absent
          /\ \A p \in Paths : l2'[p] = l2[p] \/ l2'[p] = Absent
      BY <1>7 DEF SendWrite, Clear
    <2>2. handed' = Nothing
      BY <1>7 DEF SendWrite
    <2> QED
      BY <2>1, <2>2 DEF AgesKnown, StaleBound, Nothing, Absent
  <1>8. ASSUME Logout
        PROVE  AgesKnown' /\ StaleBound'
    <2>1. /\ \A p \in Paths : mem'[p] = Absent
          /\ \A p \in Paths : l2'[p] = Absent
      BY <1>8 DEF Logout, Clear
    <2>2. handed' = Nothing
      BY <1>8 DEF Logout
    <2> QED
      BY <2>1, <2>2 DEF AgesKnown, StaleBound, Nothing, Absent
  <1>9. ASSUME Tick
        PROVE  AgesKnown' /\ StaleBound'
    <2>1. ASSUME NEW p \in Paths, Aged(mem[p], p).kind = "kept"
          PROVE  \/ Aged(mem[p], p).real <= Aged(mem[p], p).age
                 \/ Aged(mem[p], p).real + Threshold <= Aged(mem[p], p).age + TTL[p]
      <3>1. /\ mem[p].kind = "kept"
            /\ Aged(mem[p], p) = Kept(mem[p], mem[p].age + 1, mem[p].real + 1)
        BY <2>1 DEF Aged, Gone
      <3>2. mem[p].age \in Nat /\ mem[p].real \in Nat /\ TTL[p] \in Nat
        BY <1>0, <3>1, MemKept
      <3>3. mem[p].real <= mem[p].age \/ mem[p].real + Threshold <= mem[p].age + TTL[p]
        BY <3>1 DEF AgesKnown
      <3> QED
        BY <3>1, <3>2, <3>3 DEF Kept
    <2>2. ASSUME NEW p \in Paths, Faded(l2[p]).kind = "kept"
          PROVE  Faded(l2[p]).left + Faded(l2[p]).real = TTL[p]
      <3>1. /\ l2[p].kind = "kept"
            /\ Faded(l2[p]) = Stored(l2[p], l2[p].left - 1, l2[p].real + 1)
        BY <2>2 DEF Faded, Absent
      <3>2. l2[p].left \in Nat /\ l2[p].real \in Nat
        BY <1>0, <3>1, L2Kept
      <3>3. l2[p].left + l2[p].real = TTL[p]
        BY <3>1 DEF AgesKnown
      <3> QED
        BY <3>1, <3>2, <3>3 DEF Stored
    <2>3. \A p \in Paths : mem'[p] = Aged(mem[p], p) /\ l2'[p] = Faded(l2[p])
      BY <1>9 DEF Tick
    <2>4. handed' = Nothing
      BY <1>9 DEF Tick
    <2> QED
      BY <2>1, <2>2, <2>3, <2>4 DEF AgesKnown, StaleBound, Nothing
  <1>10. CASE \/ \E p \in cacheScene.paths :
                    OthersWrite(p) \/ \E u \in cacheScene.accounts : OtherTabReads(p, u)
              \/ \E s \in cacheScene.slots : ServerAnswer(s) \/ ReadFails(s)
              \/ \E C \in SUBSET cacheScene.paths : ServerApplies(C)
              \/ DeliverWrite \/ FailWrite
              \/ \E u \in cacheScene.accounts : Login(u)
    <2>1. UNCHANGED <<mem, l2>> /\ handed' = Nothing
      BY <1>10 DEF OthersWrite, OtherTabReads, ServerAnswer, ReadFails, ServerApplies,
                   DeliverWrite, FailWrite, Login
    <2> QED
      BY <2>1, AgesStay
  <1>11. CASE UNCHANGED cacheVars
    BY <1>11 DEF cacheVars, AgesKnown, StaleBound
  <1>12. ASSUME NEW u, LoginOver(u)
         PROVE  AgesKnown' /\ StaleBound'
    BY <1>12 DEF LoginOver, AgesKnown, StaleBound, Nothing, Absent
  <1> QED
    BY <1>0, <1>1, <1>2, <1>3, <1>4, <1>5, <1>6, <1>7, <1>8, <1>9, <1>10, <1>11, <1>12
    DEF CacheNext

-----------------------------------------------------------------------------
(* Who was it read for.                                                    *)

\* What apiFetch finds was read for the account signed in, or strayed.
LEMMA FoundOwn ==
    ASSUME CacheTypeOK, OwnAccount, NEW p \in Paths \ strays, Found(p).kind = "kept"
    PROVE  Found(p).u = user
  BY FoundFits DEF OwnAccount, Promoted, Kept

\* Every step keeps what did not stray to the account signed in.
LEMMA StepOwn ==
    ASSUME CacheTypeOK, OwnAccount, SessionIsolation, [CacheNext]_cacheVars
    PROVE  OwnAccount' /\ SessionIsolation'
  <1> USE CacheAssumption
  <1>0. /\ cacheScene.paths \subseteq Paths /\ cacheScene.slots \subseteq Requests
        /\ mem \in [Paths -> MemEntry] /\ l2 \in [Paths -> L2Entry]
    BY SceneFits DEF CacheTypeOK
  <1>1. ASSUME NEW p \in Paths, ReadHit(p)
        PROVE  OwnAccount' /\ SessionIsolation'
    <2>1. /\ Found(p) \in MemEntry /\ Found(p).kind = "kept"
          /\ mem' = [mem EXCEPT ![p] = Found(p)] /\ UNCHANGED <<l2, user, strays>>
          /\ handed' = Given(p, Found(p), Found(p).real)
      BY <1>1, FoundFits DEF ReadHit, Live
    <2>2. p \notin strays => Found(p).u = user
      BY <2>1, FoundOwn
    <2> QED
      BY <1>0, <2>1, <2>2 DEF OwnAccount, SessionIsolation, Given
  <1>2. ASSUME NEW p \in Paths, NEW s \in Requests, ReadMiss(p, s)
        PROVE  OwnAccount' /\ SessionIsolation'
    <2>1. mem' = [mem EXCEPT ![p] = IF Found(p).kind = "kept" THEN Gone ELSE Found(p)]
      BY <1>2 DEF ReadMiss
    <2>2. handed' = Nothing /\ UNCHANGED <<l2, user, strays>>
      BY <1>2 DEF ReadMiss
    <2> QED
      BY <1>0, <2>1, <2>2 DEF OwnAccount, SessionIsolation, Nothing, Gone
  <1>3. ASSUME NEW p \in Paths, Peek(p)
        PROVE  OwnAccount' /\ SessionIsolation'
    <2>1. UNCHANGED <<l2, user, strays>>
      BY <1>3 DEF Peek
    <2>2. CASE Live(mem[p], p) /\ handed' = Given(p, mem[p], mem[p].real) /\ UNCHANGED mem
      BY <2>1, <2>2 DEF Live, Given, OwnAccount, SessionIsolation
    <2>3. CASE /\ Readable(p) /\ handed' = Given(p, l2[p], l2[p].real)
               /\ mem' = [mem EXCEPT ![p] = IF Threshold < TTL[p] THEN Promoted(p) ELSE Gone]
      BY <1>0, <2>1, <2>3
      DEF Readable, Given, Promoted, Kept, Gone, OwnAccount, SessionIsolation
    <2> QED
      BY <1>3, <2>2, <2>3 DEF Peek
  <1>4. ASSUME NEW s \in Requests, DeliverRead(s)
        PROVE  OwnAccount' /\ SessionIsolation'
    <2> DEFINE p == flights[s].p
    <2>1. p \in Paths
      BY <1>4, FlightFits DEF DeliverRead
    <2>2. /\ mem' = [mem EXCEPT ![p] = IF TTL[p] > 0 THEN Kept(flights[s], 0, 0) ELSE Gone]
          /\ \/ l2' = [l2 EXCEPT ![p] = Stored(flights[s], TTL[p], 0)]
             \/ l2' = l2
          /\ handed' = Nothing \/ handed' = Given(p, flights[s], 0)
          /\ strays' = IF flights[s].u # user THEN strays \cup {p} ELSE strays
          /\ UNCHANGED user
      BY <1>4 DEF DeliverRead
    <2>3. SessionIsolation'
      BY <2>1, <2>2 DEF SessionIsolation, Given, Nothing
    <2>4. OwnAccount'
      BY <1>0, <2>1, <2>2 DEF OwnAccount, Kept, Stored, Gone
    <2> QED
      BY <2>3, <2>4
  <1>5. ASSUME NEW p \in Paths, OtherTabStores(p)
        PROVE  OwnAccount' /\ SessionIsolation'
    <2>1. /\ l2' = [l2 EXCEPT ![p] = Stored(other[p], TTL[p], 0)] /\ UNCHANGED <<mem, user>>
          /\ strays' = IF other[p].u # user THEN strays \cup {p} ELSE strays
          /\ handed' = Nothing
      BY <1>5 DEF OtherTabStores
    <2> QED
      BY <1>0, <2>1 DEF OwnAccount, SessionIsolation, Nothing, Stored
  <1>6. ASSUME NEW p \in Paths, OtherTabClears(p)
        PROVE  OwnAccount' /\ SessionIsolation'
    BY <1>0, <1>6 DEF OtherTabClears, OwnAccount, SessionIsolation, Nothing, Absent
  <1>7. ASSUME NEW area, NEW raw, SendWrite(area, raw)
        PROVE  OwnAccount' /\ SessionIsolation'
    <2>1. /\ \A p \in Paths : mem'[p] = mem[p] \/ mem'[p] = Absent
          /\ \A p \in Paths : l2'[p] = l2[p] \/ l2'[p] = Absent
      BY <1>7 DEF SendWrite, Clear
    <2>2. handed' = Nothing /\ UNCHANGED <<user, strays>>
      BY <1>7 DEF SendWrite
    <2> QED
      BY <2>1, <2>2 DEF OwnAccount, SessionIsolation, Nothing, Absent
  <1>8. ASSUME Logout
        PROVE  OwnAccount' /\ SessionIsolation'
    <2>1. /\ \A p \in Paths : mem'[p] = Absent
          /\ \A p \in Paths : l2'[p] = Absent
      BY <1>8 DEF Logout, Clear
    <2>2. handed' = Nothing
      BY <1>8 DEF Logout
    <2> QED
      BY <2>1, <2>2 DEF OwnAccount, SessionIsolation, Nothing, Absent
  <1>9. ASSUME NEW u, Login(u)
        PROVE  OwnAccount' /\ SessionIsolation'
    <2>1. ASSUME NEW p \in Paths \ strays
          PROVE  mem[p].kind # "kept" /\ l2[p].kind # "kept"
      <3>1. user = SignedOut
        BY <1>9 DEF Login
      <3>2. /\ mem[p].kind = "kept" => mem[p].u \in Accounts
            /\ l2[p].kind = "kept" => l2[p].u \in Accounts
        BY <1>0, MemKept, L2Kept
      <3> QED
        BY <3>1, <3>2 DEF OwnAccount
    <2>2. UNCHANGED <<mem, l2, strays>> /\ handed' = Nothing
      BY <1>9 DEF Login
    <2> QED
      BY <2>1, <2>2 DEF OwnAccount, SessionIsolation, Nothing
  <1>10. ASSUME Tick
         PROVE  OwnAccount' /\ SessionIsolation'
    <2>1. ASSUME NEW p \in Paths
          PROVE  /\ Aged(mem[p], p).kind = "kept" =>
                       mem[p].kind = "kept" /\ Aged(mem[p], p).u = mem[p].u
                 /\ Faded(l2[p]).kind = "kept" =>
                       l2[p].kind = "kept" /\ Faded(l2[p]).u = l2[p].u
      BY DEF Aged, Faded, Kept, Stored, Gone, Absent
    <2>2. \A p \in Paths : mem'[p] = Aged(mem[p], p) /\ l2'[p] = Faded(l2[p])
      BY <1>10 DEF Tick
    <2>3. handed' = Nothing /\ UNCHANGED <<user, strays>>
      BY <1>10 DEF Tick
    <2> QED
      BY <2>1, <2>2, <2>3 DEF OwnAccount, SessionIsolation, Nothing
  <1>11. CASE \/ \E p \in cacheScene.paths :
                    OthersWrite(p) \/ \E u \in cacheScene.accounts : OtherTabReads(p, u)
              \/ \E s \in cacheScene.slots : ServerAnswer(s) \/ ReadFails(s)
              \/ \E C \in SUBSET cacheScene.paths : ServerApplies(C)
              \/ DeliverWrite \/ FailWrite
    <2>1. UNCHANGED <<mem, l2, user, strays>> /\ handed' = Nothing
      BY <1>11 DEF OthersWrite, OtherTabReads, ServerAnswer, ReadFails, ServerApplies,
                   DeliverWrite, FailWrite
    <2> QED
      BY <2>1 DEF OwnAccount, SessionIsolation, Nothing
  <1>12. CASE UNCHANGED cacheVars
    BY <1>12 DEF cacheVars, OwnAccount, SessionIsolation
  <1>13. ASSUME NEW u, LoginOver(u)
         PROVE  OwnAccount' /\ SessionIsolation'
    <2>1. /\ \A p \in Paths : mem'[p] = Absent
          /\ \A p \in Paths \ strays' : l2'[p].kind # "kept"
          /\ handed' = Nothing
      BY <1>13 DEF LoginOver
    <2> QED
      BY <2>1 DEF OwnAccount, SessionIsolation, Nothing, Absent
  <1> QED
    BY <1>0, <1>1, <1>2, <1>3, <1>4, <1>5, <1>6, <1>7, <1>8, <1>9, <1>10, <1>11, <1>12,
       <1>13
    DEF CacheNext

-----------------------------------------------------------------------------
(* What a write makes void.                                                *)

\* What apiFetch finds was answered after the last write that is done, unless a
\* read overlapped that write.
LEMMA FoundAfter ==
    ASSUME CacheTypeOK, NothingBefore, NEW p \in Paths \ overlapped, Found(p).kind = "kept"
    PROVE  Found(p).v >= seen[p] /\ (mem[p].kind = "kept" \/ l2[p].kind = "kept")
  BY FoundFits DEF NothingBefore, Promoted, Kept

\* Nothing that a step leaves in a store, a request or a hand was there less
\* recently than what was there before, and nothing new overlaps less.
LEMMA FewerStay ==
    ASSUME CacheTypeOK, CacheTypeOK', WritesSeen,
           UNCHANGED <<served, seen, write>>, overlapped \subseteq overlapped',
           handed' = Nothing,
           \A p \in Paths :
               /\ mem'[p].kind = "kept" => mem[p].kind = "kept" /\ mem'[p].v = mem[p].v
               /\ l2'[p].kind = "kept" => l2[p].kind = "kept" /\ l2'[p].v = l2[p].v
               /\ other'[p].kind # "none" => other'[p] = other[p],
           \A s \in Requests :
               flights'[s].phase # "idle" =>
                   \/ flights'[s] = flights[s]
                   \/ flights'[s].phase = "sent" /\ flights'[s].p \in overlapped'
                   \/ flights'[s].phase = "sent" /\ write.phase = "idle"
    PROVE  WritesSeen'
  <1>1. NothingBefore'
    BY OtherFits DEF WritesSeen, NothingBefore
  <1>2. OwnApiWritesSeen'
    BY DEF OwnApiWritesSeen, Nothing
  <1>3. VoidWhileWriting'
    <2>1. CASE write.phase = "idle"
      BY <2>1 DEF VoidWhileWriting
    <2>2. CASE write.phase # "idle"
      <3>1. write'.made \subseteq Invalidated(write'.area)
        BY <2>2 DEF WritesSeen, VoidWhileWriting
      <3>2. ASSUME ~write'.raw, NEW p \in Invalidated(write'.area) \ overlapped'
            PROVE  /\ mem'[p].kind # "kept" /\ l2'[p].kind # "kept"
                   /\ other'[p].kind # "kept"
                   /\ \A s \in Requests : ~(flights'[s].phase # "idle" /\ flights'[s].p = p)
        <4>1. p \in Paths
          BY <3>2 DEF Invalidated
        <4>2. /\ mem[p].kind # "kept" /\ l2[p].kind # "kept"
              /\ other[p].kind # "kept" /\ ~BeingRead(p)
          BY <2>2, <3>2 DEF WritesSeen, VoidWhileWriting
        <4> QED
          BY <2>2, <3>2, <4>1, <4>2, OtherFits DEF BeingRead
      <3> QED
        BY <3>1, <3>2 DEF VoidWhileWriting, BeingRead
    <2> QED
      BY <2>1, <2>2
  <1> QED
    BY <1>1, <1>2, <1>3 DEF WritesSeen

\* While a write through apiFetch is under way, no store has a path it makes
\* void, unless a read overlapped it.
LEMMA VoidPath ==
    ASSUME VoidWhileWriting, write.phase # "idle", ~write.raw,
           NEW p \in Invalidated(write.area) \ overlapped
    PROVE  /\ mem[p].kind # "kept" /\ l2[p].kind # "kept"
           /\ other[p].kind # "kept" /\ ~BeingRead(p)
  BY DEF VoidWhileWriting

\* Every step keeps what a write through apiFetch promises.
LEMMA StepWrites ==
    ASSUME CacheTypeOK, CacheTypeOK', WritesSeen, [CacheNext]_cacheVars
    PROVE  WritesSeen'
  <1> USE CacheAssumption
  <1>0. /\ cacheScene.paths \subseteq Paths /\ cacheScene.slots \subseteq Requests
        /\ cacheScene.accounts \subseteq Accounts /\ cacheScene.writes \subseteq Writable
        /\ mem \in [Paths -> MemEntry] /\ l2 \in [Paths -> L2Entry]
        /\ other \in [Paths -> OtherBody] /\ flights \in [Requests -> ReadRequest]
        /\ served \in [Paths -> 0..MaxChanges] /\ seen \in [Paths -> 0..MaxChanges]
        /\ \A area : Invalidated(area) \subseteq Paths
    BY SceneFits DEF CacheTypeOK, Invalidated
  <1>00. NothingBefore /\ VoidWhileWriting /\ OwnApiWritesSeen
    BY DEF WritesSeen
  <1>1. ASSUME NEW p \in Paths, ReadHit(p)
        PROVE  WritesSeen'
    <2>1. /\ Found(p) \in MemEntry /\ Found(p).kind = "kept"
          /\ mem' = [mem EXCEPT ![p] = Found(p)]
          /\ handed' = Given(p, Found(p), Found(p).real)
          /\ UNCHANGED <<l2, other, write, seen, served>>
      BY <1>1, FoundFits DEF ReadHit, Live
    <2>2. p \notin overlapped =>
             Found(p).v >= seen[p] /\ (mem[p].kind = "kept" \/ l2[p].kind = "kept")
      BY <1>00, <2>1, FoundAfter
    <2>3. /\ overlapped \subseteq overlapped'
          /\ \/ flights' = flights
             \/ \E s \in Requests :
                   /\ flights[s].phase = "idle"
                   /\ flights' = [flights EXCEPT ![s] =
                         [phase |-> "sent", p |-> p, u |-> user, behind |-> TRUE]]
                   /\ write.phase # "idle" => p \in overlapped'
      <3>1. CASE UNCHANGED <<flights, overlapped>>
        BY <3>1
      <3>2. ASSUME NEW s \in cacheScene.slots, SendRead(s, p, TRUE)
            PROVE  /\ s \in Requests /\ flights[s].phase = "idle"
                   /\ flights' = [flights EXCEPT ![s] =
                         [phase |-> "sent", p |-> p, u |-> user, behind |-> TRUE]]
                   /\ write.phase # "idle" => p \in overlapped'
                   /\ overlapped \subseteq overlapped'
        BY <1>0, <3>2, ReadSent
      <3>3. UNCHANGED <<flights, overlapped>> \/ \E s \in cacheScene.slots : SendRead(s, p, TRUE)
        BY <1>1 DEF ReadHit
      <3> QED
        BY <3>1, <3>2, <3>3
    <2>4. NothingBefore'
      BY <1>0, <1>00, <2>1, <2>2, <2>3 DEF NothingBefore
    <2>5. OwnApiWritesSeen'
      BY <2>1, <2>2, <2>3 DEF OwnApiWritesSeen, Given
    <2>6. ASSUME write.phase # "idle", ~write.raw,
                 NEW q \in Invalidated(write.area) \ overlapped'
          PROVE  /\ mem'[q].kind # "kept" /\ l2'[q].kind # "kept"
                 /\ other'[q].kind # "kept"
                 /\ \A s \in Requests : ~(flights'[s].phase # "idle" /\ flights'[s].p = q)
      <3>1. q \in Paths /\ q \notin overlapped
        BY <1>0, <2>3, <2>6
      <3>2. /\ mem[q].kind # "kept" /\ l2[q].kind # "kept"
            /\ other[q].kind # "kept" /\ ~BeingRead(q)
        BY <1>00, <2>6, <3>1, VoidPath
      <3>3. q # p
        BY <2>2, <3>1, <3>2
      <3> QED
        BY <1>0, <2>1, <2>3, <3>1, <3>2, <3>3 DEF BeingRead
    <2>7. VoidWhileWriting'
      BY <1>00, <2>1, <2>6 DEF VoidWhileWriting, BeingRead
    <2> QED
      BY <2>4, <2>5, <2>7 DEF WritesSeen
  <1>2. ASSUME NEW p \in Paths, NEW s \in Requests, ReadMiss(p, s)
        PROVE  WritesSeen'
    <2>1. mem' = [mem EXCEPT ![p] = IF Found(p).kind = "kept" THEN Gone ELSE Found(p)]
      BY <1>2 DEF ReadMiss
    <2>2. /\ flights' = [flights EXCEPT ![s] =
                [phase |-> "sent", p |-> p, u |-> user, behind |-> FALSE]]
          /\ overlapped \subseteq overlapped'
          /\ write.phase # "idle" => p \in overlapped'
      BY <1>2, ReadSent DEF ReadMiss
    <2>3. handed' = Nothing /\ UNCHANGED <<served, seen, write, l2, other>>
      BY <1>2 DEF ReadMiss
    <2>4. \A q \in Paths : mem'[q].kind = "kept" => mem'[q] = mem[q]
      BY <1>0, <2>1 DEF Gone
    <2>5. \A r \in Requests :
             \/ flights'[r] = flights[r]
             \/ flights'[r].phase = "sent" /\ flights'[r].p \in overlapped'
             \/ flights'[r].phase = "sent" /\ write.phase = "idle"
      BY <1>0, <2>2
    <2>6. \A q \in Paths :
              /\ mem'[q].kind = "kept" => mem[q].kind = "kept" /\ mem'[q].v = mem[q].v
              /\ l2'[q].kind = "kept" => l2[q].kind = "kept" /\ l2'[q].v = l2[q].v
              /\ other'[q].kind # "none" => other'[q] = other[q]
      BY <2>3, <2>4
    <2>7. \A r \in Requests :
              flights'[r].phase # "idle" =>
                   \/ flights'[r] = flights[r]
                   \/ flights'[r].phase = "sent" /\ flights'[r].p \in overlapped'
                   \/ flights'[r].phase = "sent" /\ write.phase = "idle"
      BY <2>5
    <2> QED
      BY <2>2, <2>3, <2>6, <2>7, FewerStay
  <1>3. ASSUME NEW p \in Paths, Peek(p)
        PROVE  WritesSeen'
    <2>1. UNCHANGED <<l2, flights, other, write, seen, served, overlapped>>
      BY <1>3 DEF Peek
    <2>2. \A q \in Paths : mem'[q].kind = "kept" =>
              \/ mem'[q] = mem[q]
              \/ l2[q].kind = "kept" /\ mem'[q].v = l2[q].v
      BY <1>0, <1>3 DEF Peek, Readable, Promoted, Kept, Gone
    <2>3. /\ handed'.p = p
          /\ \/ mem[p].kind = "kept" /\ handed'.v = mem[p].v
             \/ l2[p].kind = "kept" /\ handed'.v = l2[p].v
      BY <1>3 DEF Peek, Live, Readable, Given
    <2>4. NothingBefore'
      BY <1>00, <2>1, <2>2 DEF NothingBefore
    <2>5. OwnApiWritesSeen'
      BY <1>00, <2>1, <2>3 DEF OwnApiWritesSeen, NothingBefore
    <2>6. VoidWhileWriting'
      BY <1>0, <1>00, <2>1, <2>2 DEF VoidWhileWriting, BeingRead
    <2> QED
      BY <2>4, <2>5, <2>6 DEF WritesSeen
  <1>4. ASSUME NEW s \in Requests, ServerAnswer(s)
        PROVE  WritesSeen'
    <2>1. /\ UNCHANGED <<mem, l2, other, write, seen, served, overlapped>>
          /\ handed' = Nothing
      BY <1>4 DEF ServerAnswer
    <2>2. /\ flights[s].phase # "idle" /\ flights[s].p \in Paths
          /\ flights'[s].p = flights[s].p /\ flights'[s].v = served[flights[s].p]
          /\ \A r \in Requests : r # s => flights'[r] = flights[r]
      BY <1>0, <1>4, FlightFits DEF ServerAnswer
    <2>3. NothingBefore'
      BY <1>0, <1>00, <2>1, <2>2 DEF NothingBefore
    <2>4. \A q \in Paths : ~BeingRead(q) => ~BeingRead(q)'
      BY <2>2 DEF BeingRead
    <2>5. VoidWhileWriting'
      BY <1>0, <1>00, <2>1, <2>4 DEF VoidWhileWriting
    <2> QED
      BY <2>1, <2>3, <2>5 DEF WritesSeen, OwnApiWritesSeen, Nothing
  <1>5. ASSUME NEW s \in Requests, DeliverRead(s)
        PROVE  WritesSeen'
    <2> DEFINE p == flights[s].p
    <2>1. /\ p \in Paths /\ flights[s].phase = "answered"
          /\ UNCHANGED <<other, write, seen, served, overlapped>>
      BY <1>5, FlightFits DEF DeliverRead
    <2>2. /\ \A q \in Paths : q # p => mem'[q] = mem[q] /\ l2'[q] = l2[q]
          /\ mem'[p].kind = "kept" => mem'[p].v = flights[s].v
          /\ l2'[p].kind = "kept" => l2'[p].v = flights[s].v \/ l2'[p] = l2[p]
          /\ handed' = Nothing \/ handed' = Given(p, flights[s], 0)
          /\ flights' = [flights EXCEPT ![s] = NoFlight]
      BY <1>0, <1>5, <2>1 DEF DeliverRead, Kept, Stored, Gone
    <2>3. p \notin overlapped => flights[s].v >= seen[p]
      BY <1>00, <2>1 DEF NothingBefore
    <2>4. NothingBefore'
      BY <1>0, <1>00, <2>1, <2>2, <2>3 DEF NothingBefore, NoFlight
    <2>5. OwnApiWritesSeen'
      BY <2>1, <2>2, <2>3 DEF OwnApiWritesSeen, Given, Nothing
    <2>6. \A q \in Paths : ~BeingRead(q) => q # p /\ ~BeingRead(q)'
      BY <1>0, <2>1, <2>2 DEF BeingRead, NoFlight
    <2>7. VoidWhileWriting'
      BY <1>0, <1>00, <2>1, <2>2, <2>6 DEF VoidWhileWriting
    <2> QED
      BY <2>4, <2>5, <2>7 DEF WritesSeen
  <1>6. ASSUME NEW s \in Requests, ReadFails(s)
        PROVE  WritesSeen'
    <2>1. /\ UNCHANGED <<mem, l2, other, write, seen, served, overlapped>>
          /\ handed' = Nothing
          /\ flights' = [flights EXCEPT ![s] = NoFlight]
      BY <1>6 DEF ReadFails
    <2>2. \A r \in Requests : flights'[r].phase # "idle" => flights'[r] = flights[r]
      BY <1>0, <2>1 DEF NoFlight
    <2> QED
      BY <2>1, <2>2, FewerStay
  <1>7. ASSUME NEW area \in Writable, NEW raw \in BOOLEAN, SendWrite(area, raw)
        PROVE  WritesSeen'
    <2> DEFINE R == Void(area, raw)
    <2>1. /\ UNCHANGED <<served, seen, flights, other>> /\ handed' = Nothing
          /\ write' = [phase |-> "sent", area |-> area, raw |-> raw, made |-> {}]
          /\ \A p \in Paths : p \in R => mem'[p] = Absent /\ l2'[p] = Absent
          /\ \A p \in Paths : p \notin R => mem'[p] = mem[p] /\ l2'[p] = l2[p]
          /\ overlapped' = (overlapped \ R)
                \cup {p \in Paths : BeingRead(p) \/ other[p].kind # "none"}
      BY <1>7 DEF SendWrite, Clear
    <2>2. \A p \in Paths \ overlapped' :
              ~BeingRead(p) /\ other[p].kind = "none" /\ (p \in R \/ p \notin overlapped)
      BY <2>1
    <2>3. \A p \in Paths \ overlapped' :
              /\ mem'[p].kind = "kept" => mem'[p].v >= seen[p]
              /\ l2'[p].kind = "kept" => l2'[p].v >= seen[p]
      BY <1>00, <2>1, <2>2 DEF NothingBefore, Absent
    <2>4. ASSUME NEW s \in Requests, flights[s].phase = "answered"
          PROVE  flights[s].p \in overlapped'
      <3>1. flights[s].p \in Paths /\ BeingRead(flights[s].p)
        BY <2>4, FlightFits DEF BeingRead
      <3> QED
        BY <2>1, <3>1
    <2>5. NothingBefore'
      BY <1>00, <2>1, <2>2, <2>3, <2>4 DEF NothingBefore
    <2>6. VoidWhileWriting'
      <3>1. write'.made \subseteq Invalidated(write'.area)
        BY <2>1
      <3>2. ASSUME ~write'.raw, NEW p \in Invalidated(write'.area) \ overlapped'
            PROVE  /\ mem'[p].kind # "kept" /\ l2'[p].kind # "kept"
                   /\ other'[p].kind # "kept" /\ ~BeingRead(p)'
        <4>1. p \in R /\ p \in Paths
          BY <1>0, <2>1, <3>2 DEF Void
        <4> QED
          BY <2>1, <2>2, <3>2, <4>1 DEF Absent, BeingRead
      <3> QED
        BY <3>1, <3>2 DEF VoidWhileWriting
    <2> QED
      BY <2>1, <2>5, <2>6 DEF WritesSeen, OwnApiWritesSeen, Nothing
  <1>8. ASSUME NEW C \in SUBSET Paths, ServerApplies(C)
        PROVE  WritesSeen'
    <2>1. /\ UNCHANGED <<mem, l2, flights, other, seen, overlapped>> /\ handed' = Nothing
          /\ C \subseteq Invalidated(write.area)
          /\ write.phase = "sent"
          /\ \A p \in Paths : served'[p] >= served[p]
      BY <1>0, <1>8 DEF ServerApplies
    <2>2. write'.raw = write.raw /\ write'.area = write.area /\ write'.made = C
      <3>1. write \in [phase : {"sent", "applied"}, area : Writable, raw : BOOLEAN,
                        made : SUBSET Paths]
        BY <2>1 DEF CacheTypeOK, WriteRequest, NoWrite
      <3> QED
        BY <1>8, <3>1 DEF ServerApplies
    <2>3. served' \in [Paths -> 0..MaxChanges]
      BY DEF CacheTypeOK
    <2>4. NothingBefore'
      BY <1>0, <1>00, <2>1, <2>3 DEF NothingBefore
    <2>5. VoidWhileWriting'
      BY <1>00, <2>1, <2>2 DEF VoidWhileWriting, BeingRead
    <2> QED
      BY <2>1, <2>4, <2>5 DEF WritesSeen, OwnApiWritesSeen, Nothing
  <1>9. ASSUME DeliverWrite
        PROVE  WritesSeen'
    <2>1. /\ UNCHANGED <<served, mem, l2, flights, other, overlapped>> /\ handed' = Nothing
          /\ write' = NoWrite /\ write.phase = "applied"
          /\ \A p \in Paths : seen'[p] =
                IF ~write.raw /\ p \in write.made THEN served[p] ELSE seen[p]
      BY <1>9 DEF DeliverWrite
    <2>2. ASSUME NEW p \in Paths \ overlapped, seen'[p] # seen[p]
          PROVE  /\ mem[p].kind # "kept" /\ l2[p].kind # "kept"
                 /\ other[p].kind # "kept" /\ ~BeingRead(p)
      <3>1. write.phase # "idle" /\ ~write.raw /\ p \in write.made
        BY <2>1, <2>2
      <3>2. p \in Invalidated(write.area) \ overlapped
        BY <1>00, <2>2, <3>1 DEF VoidWhileWriting
      <3> QED
        BY <1>00, <3>1, <3>2, VoidPath
    <2>3. ASSUME NEW s \in Requests, flights[s].phase = "answered",
                 flights[s].p \notin overlapped
          PROVE  flights[s].p \in Paths /\ seen'[flights[s].p] = seen[flights[s].p]
      <3>1. flights[s].p \in Paths /\ BeingRead(flights[s].p)
        BY <2>3, FlightFits DEF BeingRead
      <3> QED
        BY <2>2, <2>3, <3>1
    <2>4. NothingBefore'
      BY <1>0, <1>00, <2>1, <2>2, <2>3 DEF NothingBefore
    <2> QED
      BY <2>1, <2>4 DEF WritesSeen, OwnApiWritesSeen, Nothing, VoidWhileWriting, NoWrite
  <1>10. ASSUME FailWrite
         PROVE  WritesSeen'
    BY <1>00, <1>10 DEF FailWrite, WritesSeen, NothingBefore, OwnApiWritesSeen, Nothing,
                        VoidWhileWriting, NoWrite
  <1>11. ASSUME Logout
         PROVE  WritesSeen'
    <2>1. /\ \A p \in Paths : mem'[p] = Absent /\ l2'[p] = Absent
          /\ UNCHANGED <<served, flights, other, write, seen, overlapped>>
          /\ handed' = Nothing
      BY <1>11 DEF Logout, Clear
    <2> QED
      BY <2>1, FewerStay DEF Absent
  <1>12. ASSUME NEW p \in Paths, NEW u \in Accounts, OtherTabReads(p, u)
         PROVE  WritesSeen'
    <2>1. /\ UNCHANGED <<served, mem, l2, flights, write, seen>> /\ handed' = Nothing
          /\ overlapped \subseteq overlapped'
          /\ write.phase # "idle" => p \in overlapped'
          /\ other' = [other EXCEPT ![p] = [kind |-> "kept", v |-> served[p], u |-> u]]
      BY <1>12 DEF OtherTabReads
    <2>2. NothingBefore'
      BY <1>0, <1>00, <2>1 DEF NothingBefore
    <2>3. VoidWhileWriting'
      BY <1>0, <1>00, <2>1 DEF VoidWhileWriting, BeingRead
    <2> QED
      BY <2>1, <2>2, <2>3 DEF WritesSeen, OwnApiWritesSeen, Nothing
  <1>13. ASSUME NEW p \in Paths, OtherTabStores(p)
         PROVE  WritesSeen'
    <2>1. /\ UNCHANGED <<served, mem, flights, write, seen, overlapped>> /\ handed' = Nothing
          /\ other[p].kind = "kept"
          /\ l2' = [l2 EXCEPT ![p] = Stored(other[p], TTL[p], 0)]
          /\ other' = [other EXCEPT ![p] = Absent]
      BY <1>13, OtherFits DEF OtherTabStores
    <2>2. NothingBefore'
      BY <1>0, <1>00, <2>1 DEF NothingBefore, Stored, Absent
    <2>3. VoidWhileWriting'
      BY <1>0, <1>00, <2>1 DEF VoidWhileWriting, BeingRead, Absent
    <2> QED
      BY <2>1, <2>2, <2>3 DEF WritesSeen, OwnApiWritesSeen, Nothing
  <1>14. ASSUME NEW p \in Paths, OtherTabClears(p)
         PROVE  WritesSeen'
    <2>1. /\ UNCHANGED <<served, mem, flights, other, write, seen, overlapped>>
          /\ handed' = Nothing /\ l2' = [l2 EXCEPT ![p] = Absent]
      BY <1>14 DEF OtherTabClears
    <2> QED
      BY <1>0, <2>1, FewerStay DEF Absent
  <1>15. ASSUME NEW p \in Paths, OthersWrite(p)
         PROVE  WritesSeen'
    <2>1. /\ UNCHANGED <<mem, l2, flights, other, write, seen, overlapped>>
          /\ handed' = Nothing /\ \A q \in Paths : served'[q] >= served[q]
      BY <1>0, <1>15 DEF OthersWrite
    <2>2. served' \in [Paths -> 0..MaxChanges]
      BY DEF CacheTypeOK
    <2>3. NothingBefore'
      BY <1>0, <1>00, <2>1, <2>2 DEF NothingBefore
    <2> QED
      BY <1>00, <2>1, <2>3 DEF WritesSeen, OwnApiWritesSeen, Nothing, VoidWhileWriting,
                               BeingRead
  <1>16. ASSUME Tick
         PROVE  WritesSeen'
    <2>1. ASSUME NEW p \in Paths
          PROVE  /\ Aged(mem[p], p).kind = "kept" =>
                       mem[p].kind = "kept" /\ Aged(mem[p], p).v = mem[p].v
                 /\ Faded(l2[p]).kind = "kept" =>
                       l2[p].kind = "kept" /\ Faded(l2[p]).v = l2[p].v
      BY DEF Aged, Faded, Kept, Stored, Gone, Absent
    <2>2. \A p \in Paths : mem'[p] = Aged(mem[p], p) /\ l2'[p] = Faded(l2[p])
      BY <1>16 DEF Tick
    <2>3. /\ UNCHANGED <<served, flights, other, write, seen, overlapped>>
          /\ handed' = Nothing
      BY <1>16 DEF Tick
    <2> QED
      BY <2>1, <2>2, <2>3, FewerStay
  <1>17. ASSUME NEW u, Login(u)
         PROVE  WritesSeen'
    <2>1. /\ UNCHANGED <<served, mem, l2, flights, other, write, seen, overlapped>>
          /\ handed' = Nothing
      BY <1>17 DEF Login
    <2> QED
      BY <2>1, FewerStay
  <1>18. CASE UNCHANGED cacheVars
    BY <1>00, <1>18 DEF cacheVars, WritesSeen, NothingBefore, OwnApiWritesSeen,
                        VoidWhileWriting, BeingRead
  <1>19. ASSUME NEW u, LoginOver(u)
         PROVE  WritesSeen'
    <2>1. /\ UNCHANGED <<served, l2, other, write, seen, overlapped>>
          /\ handed' = Nothing
          /\ \A p \in Paths : mem'[p] = Absent
          /\ \A s \in Requests : flights'[s] = NoFlight
      BY <1>19 DEF LoginOver
    <2> QED
      BY <2>1, FewerStay DEF Absent, NoFlight
  <1> QED
    BY <1>0, <1>1, <1>2, <1>3, <1>4, <1>5, <1>6, <1>7, <1>8, <1>9, <1>10, <1>11, <1>12,
       <1>13, <1>14, <1>15, <1>16, <1>17, <1>18, <1>19
    DEF CacheNext

-----------------------------------------------------------------------------
(* The theorems.                                                           *)

\* The inductive invariant holds at the start and is kept by every step.
LEMMA CacheInvHolds == CacheSpec => []CacheInv
  <1>1. CacheInit => CacheInv
    <2> SUFFICES ASSUME CacheInit PROVE CacheInv
      OBVIOUS
    <2>1. CacheTypeOK /\ JoinedFits
      BY InitTyped
    <2>2. /\ \A p \in Paths : mem[p].kind = "none" /\ l2[p].kind = "none"
          /\ \A p \in Paths : other[p].kind = "none" /\ seen[p] = 0 /\ served[p] = 0
          /\ \A s \in Requests : flights[s].phase = "idle"
          /\ write.phase = "idle" /\ handed.kind = "none"
      BY DEF CacheInit, Absent, NoFlight, NoWrite, Nothing
    <2>3. AgesKnown /\ StaleBound
      BY <2>2 DEF AgesKnown, StaleBound
    <2>4. WritesSeen
      BY <2>2 DEF WritesSeen, NothingBefore, VoidWhileWriting, OwnApiWritesSeen
    <2>5. OwnAccount /\ SessionIsolation
      BY <2>2 DEF OwnAccount, SessionIsolation
    <2> QED
      BY <2>1, <2>3, <2>4, <2>5 DEF CacheInv
  <1>2. CacheInv /\ [CacheNext]_cacheVars => CacheInv'
    <2> SUFFICES ASSUME CacheInv, [CacheNext]_cacheVars PROVE CacheInv'
      OBVIOUS
    <2> USE DEF CacheInv
    <2>1. CacheTypeOK' /\ JoinedFits'
      BY StepTyped
    <2>2. AgesKnown' /\ StaleBound'
      BY StepAges
    <2>3. WritesSeen'
      BY <2>1, StepWrites
    <2>4. OwnAccount' /\ SessionIsolation'
      BY StepOwn
    <2> QED
      BY <2>1, <2>2, <2>3, <2>4
  <1> QED
    BY <1>1, <1>2, PTL DEF CacheSpec

\* The values of the cache keep their types, and a path that inFlight knows has
\* a request somebody waits for: no reader joins a request that is over.
THEOREM CacheTypes == CacheSpec => []CacheTypeOK
  <1>1. CacheInv => CacheTypeOK
    BY DEF CacheInv
  <1> QED
    BY <1>1, CacheInvHolds, PTL

\* A screen is given nothing older than a time to live, or, where a body was
\* promoted from localStorage, than two of them less the threshold.
THEOREM StaleBoundHolds == CacheSpec => []StaleBound
  <1>1. CacheInv => StaleBound
    BY DEF CacheInv
  <1> QED
    BY <1>1, CacheInvHolds, PTL

\* After a write through apiFetch is done no read shows what was before it,
\* unless a read overlapped the write.
THEOREM OwnApiWritesSeenHolds == CacheSpec => []OwnApiWritesSeen
  <1>1. CacheInv => OwnApiWritesSeen
    BY DEF CacheInv, WritesSeen
  <1> QED
    BY <1>1, CacheInvHolds, PTL

\* Nobody is shown what was read for another account, unless it arrived after
\* the sign-out or another tab stored it.
THEOREM SessionIsolationHolds == CacheSpec => []SessionIsolation
  <1>1. CacheInv => SessionIsolation
    BY DEF CacheInv
  <1> QED
    BY <1>1, CacheInvHolds, PTL

=============================================================================
