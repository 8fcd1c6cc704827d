--------------------------- MODULE Screens_proofs ---------------------------
(***************************************************************************)
(* What Screens promises holds for every discipline, any number of keys    *)
(* and any number of loads and writes under way.                           *)
(***************************************************************************)
EXTENDS Screens, TLAPS

Counting == \E s \in AllSlots : UnderWay(s) /\ Counts(s)

\* What excuses rows that are behind: something failed or strayed, they are of
\* another key, or a load that counts is under way.
Excused == failed \/ strayed \/ rows.of # wants \/ Counting

NewestUnderWay == newest # 0 => UnderWay(newest)

Spinner == loading => Spins /\ LoadingEnds

Rowed ==
    (part.guard = "latest" /\ ~strayed) =>
        IF newest = 0 THEN failed \/ rows.of = wants ELSE loads[newest].of = wants

OwnKnown ==
    /\ own <= version
    /\ \A h \in Hands : writes[h].phase = "applied" => writes[h].ver <= version

\* As long as nothing overlapped, a write is under way alone.
Alone ==
    ~raced => \A h \in Pending : Pending = {h} /\ \A s \in AllSlots : ~UnderWay(s)

\* ... and what is read or held is not older than the last confirmed write.
Fresh ==
    (ReadsOwn /\ ~raced) =>
        /\ rows.ver >= own \/ Excused
        /\ \A s \in AllSlots : loads[s].phase = "served" => loads[s].ver >= own
        /\ part.cached =>
              /\ \A k \in Keys : \A v \in held[k] : v >= own
              /\ Pending # {} => \A k \in Keys : held[k] = {}
        /\ part.early = "undone" => \A h \in Pending : writes[h].before = rows.ver

\* Where late answers are dropped, overlapping does no harm.
Newer ==
    DropsLate =>
        /\ rows.ver >= own \/ failed \/ strayed \/ newest # 0
        /\ newest # 0 => (loads[newest].phase = "served" => loads[newest].ver >= own)

\* The rows show unconfirmed only what is under way.
Early ==
    /\ part.early = "no" => rows.early = {}
    /\ part.early # "kept" => rows.early \subseteq Pending \/ failed \/ strayed \/ Counting

IInv ==
    /\ ScreenTypeOK /\ NewestUnderWay /\ Spinner /\ Rowed /\ OwnKnown
    /\ Alone /\ Fresh /\ Newer /\ Early

-----------------------------------------------------------------------------
\* An answer of the cache, and a load under way, as the handlers see them.
Answered(k) ==
    /\ part.cached /\ loading' = FALSE /\ failed' = FALSE /\ newest' = 0
    /\ \E v \in held[k] : rows' = Rows(k, v)
    /\ loads' = loads /\ raced' = raced

Started(k, hands) ==
    /\ part.cached => held[k] = {}
    /\ loading' = Spins /\ rows' = rows /\ failed' = failed
    /\ raced' = (raced \/ hands # {})
    /\ newest' \in AllSlots /\ loads' \in [AllSlots -> Load]
    /\ loads'[newest'].phase # "idle" /\ loads'[newest'].of = k
    /\ \A s \in AllSlots : loads'[s] = loads[s] \/ (s = newest' /\ loads'[s].phase = "asked")
    /\ \A s \in AllSlots : loads[s].phase # "idle" => loads'[s] = loads[s]
    /\ ~part.cached => loads'[newest'].phase = "asked"

\* Ask ends in one of the two.
LEMMA AskCases ==
    ASSUME ScreenTypeOK, NEW k \in Keys, NEW hands, Ask(k, hands)
    PROVE  Answered(k) \/ Started(k, hands)
<1>1. CASE FromCache(k)
  BY <1>1 DEF FromCache, Answered
<1>2. CASE Join(k, hands)
  <2>1. PICK s \in AllSlots : Joinable(s, k) /\ newest' = s
    BY <1>2 DEF Join
  <2> QED  BY <1>2, <2>1 DEF Join, Joinable, UnderWay, Started, ScreenTypeOK
<1>3. CASE Request(k, hands)
  <2>1. PICK s \in Slots[part.guard] :
           ~UnderWay(s) /\ loads' = [loads EXCEPT ![s] = AskedFor(k)] /\ newest' = s
    BY <1>3 DEF Request
  <2>2. s \in AllSlots
    BY <2>1 DEF ScreenTypeOK, Disciplines, AllSlots
  <2>3. AskedFor(k) \in Load /\ AskedFor(k).of = k /\ AskedFor(k).phase = "asked"
    BY DEF AskedFor, Load
  <2>4. loads' \in [AllSlots -> Load]
    BY <2>1, <2>2, <2>3 DEF ScreenTypeOK
  <2>5. \A t \in AllSlots : loads'[t] = IF t = s THEN AskedFor(k) ELSE loads[t]
    BY <2>1, <2>2 DEF ScreenTypeOK
  <2> QED  BY <1>3, <2>1, <2>2, <2>3, <2>4, <2>5 DEF Request, UnderWay, Started
<1> QED  BY <1>1, <1>2, <1>3 DEF Ask

\* What is known of the records without opening TypeOK.
LEMMA Typed ==
    ASSUME ScreenTypeOK
    PROVE  /\ own \in Nat /\ version \in Nat /\ rows.ver \in Nat /\ MaxVersion \in Nat
           /\ \A s \in AllSlots :
                /\ loads[s].phase \in {"idle", "asked", "served"}
                /\ loads[s].phase = "idle" <=> loads[s] = Idle
                /\ loads[s].phase # "idle" => loads[s].of \in Keys /\ loads[s].open \in BOOLEAN
                /\ loads[s].phase = "served" => loads[s].ver \in Versions
           /\ \A h \in Hands :
                /\ writes[h].phase \in {"idle", "sent", "applied"}
                /\ writes[h].phase = "idle" <=> writes[h] = Idle
                /\ writes[h].phase # "idle" => writes[h].of \in Keys /\ writes[h].before \in Versions
                /\ writes[h].phase = "applied" => writes[h].ver \in Versions
           /\ 0 \notin AllSlots /\ Versions \subseteq Nat
<1>1. own \in Nat /\ version \in Nat /\ rows.ver \in Nat /\ MaxVersion \in Nat
  BY ScreensAssumption DEF ScreenTypeOK, Versions
<1>2. ASSUME NEW s \in AllSlots
      PROVE  /\ loads[s].phase \in {"idle", "asked", "served"}
             /\ loads[s].phase = "idle" <=> loads[s] = Idle
             /\ loads[s].phase # "idle" => loads[s].of \in Keys /\ loads[s].open \in BOOLEAN
             /\ loads[s].phase = "served" => loads[s].ver \in Versions
  <2>1. loads[s] \in Load  BY DEF ScreenTypeOK
  <2> QED  BY <2>1 DEF Load, Idle
<1>3. ASSUME NEW h \in Hands
      PROVE  /\ writes[h].phase \in {"idle", "sent", "applied"}
             /\ writes[h].phase = "idle" <=> writes[h] = Idle
             /\ writes[h].phase # "idle" => writes[h].of \in Keys /\ writes[h].before \in Versions
             /\ writes[h].phase = "applied" => writes[h].ver \in Versions
  <2>1. writes[h] \in Write  BY DEF ScreenTypeOK
  <2> QED  BY <2>1 DEF Write, Idle
<1>4. 0 \notin AllSlots /\ Versions \subseteq Nat
  BY ScreensAssumption DEF AllSlots, Versions
<1> QED  BY <1>1, <1>2, <1>3, <1>4

\* Reading again, by the user or by a handler: own' is the version the handler
\* has just been told, and hands' the writes still under way.
LEMMA AskKeeps ==
    ASSUME IInv, NEW k \in Keys, Answered(k) \/ Started(k, Pending'),
           UNCHANGED <<part, held, version>>,
           wants' \in Keys, strayed' = (k # wants'),
           writes' \in [Hands -> Write],
           \A h \in Hands : writes'[h] = writes[h] \/ writes'[h] = Idle,
           own' \in Versions, own <= own', own' <= version,
           own' # own => Pending # {}
    PROVE  IInv'
<1> USE DEF IInv
<1>1. /\ own' \in Nat /\ own \in Nat /\ Pending' \subseteq Pending
      /\ \A s \in AllSlots : loads[s].phase \in {"idle", "asked", "served"}
      /\ 0 \notin AllSlots
  BY Typed DEF Pending, Idle, Versions
<1>2. ScreenTypeOK'
  <2>1. CASE Answered(k)
    <3>1. PICK v \in held[k] : rows' = Rows(k, v)  BY <2>1 DEF Answered
    <3>2. v \in Versions  BY <3>1 DEF ScreenTypeOK
    <3>3. rows' \in [of : Keys, ver : Versions, early : SUBSET Hands]
      BY <3>1, <3>2 DEF Rows
    <3> QED  BY <2>1, <3>3 DEF Answered, ScreenTypeOK, Versions, Write, AllSlots, Load
  <2>2. CASE Started(k, Pending')
    BY <2>2 DEF Started, ScreenTypeOK, Spins, Versions, AllSlots, Load, Write
  <2> QED  BY <2>1, <2>2
<1>3. NewestUnderWay'
  BY DEF Answered, Started, NewestUnderWay, UnderWay
<1>4. Spinner'
  <2>1. CASE Answered(k)
    BY <2>1 DEF Answered, Spinner
  <2>2. CASE Started(k, Pending')
    BY <2>2 DEF Started, Spinner, Spins, LoadingEnds, UnderWay
  <2> QED  BY <2>1, <2>2
<1>5. Rowed'
  <2>1. CASE Answered(k)
    <3>1. PICK v \in held[k] : rows' = Rows(k, v)  BY <2>1 DEF Answered
    <3> QED  BY <2>1, <3>1 DEF Answered, Rowed, Rows
  <2>2. CASE Started(k, Pending')
    BY <2>2, <1>1 DEF Started, Rowed
  <2> QED  BY <2>1, <2>2
<1>6. OwnKnown'
  BY DEF OwnKnown, Idle
<1>7. Alone'
  <2>1. CASE Answered(k)
    BY <2>1, <1>1 DEF Answered, Alone, UnderWay
  <2>2. CASE Started(k, Pending')
    BY <2>2 DEF Started, Alone
  <2> QED  BY <2>1, <2>2
<1>8. Fresh'
  <2> SUFFICES ASSUME ReadsOwn, ~raced'
               PROVE  /\ rows'.ver >= own' \/ Excused'
                      /\ \A s \in AllSlots : loads'[s].phase = "served" => loads'[s].ver >= own'
                      /\ part.cached =>
                            /\ \A c \in Keys : \A v \in held[c] : v >= own'
                            /\ Pending' # {} => \A c \in Keys : held[c] = {}
                      /\ part.early = "undone" =>
                            \A h \in Pending' : writes'[h].before = rows'.ver
    BY DEF Fresh, ReadsOwn, AllSlots
  <2>1. ~raced  BY DEF Answered, Started
  <2>2. CASE Answered(k)
    <3>1. Pending = {} /\ own' = own
      BY <2>1, <2>2 DEF Fresh, Answered
    <3>2. PICK v \in held[k] : rows' = Rows(k, v)  BY <2>2 DEF Answered
    <3>3. rows'.ver >= own'
      BY <3>1, <3>2, <2>1, <2>2 DEF Fresh, Answered, Rows
    <3> QED  BY <3>1, <3>3, <2>1, <2>2, <1>1 DEF Fresh, Answered
  <2>3. CASE Started(k, Pending')
    <3>1. Pending' = {}  BY <2>3 DEF Started
    <3>2. Excused'
      BY <2>3 DEF Started, Excused, Counting, Counts, UnderWay
    <3>3. own' # own => \A s \in AllSlots : loads[s].phase = "idle"
      BY <2>1 DEF Alone, UnderWay
    <3>4. own' # own => (part.cached => \A c \in Keys : held[c] = {})
      BY <2>1 DEF Fresh
    <3>5. \A s \in AllSlots : loads'[s].phase = "served" => loads'[s].ver >= own'
      BY <2>1, <2>3, <3>3 DEF Fresh, Started
    <3> QED  BY <3>1, <3>2, <3>4, <3>5, <2>1 DEF Fresh
  <2> QED  BY <2>2, <2>3
<1>9. Newer'
  <2>1. CASE Answered(k)
    BY <2>1 DEF Answered, Newer, DropsLate
  <2>2. CASE Started(k, Pending')
    BY <2>2, <1>1 DEF Started, Newer, DropsLate
  <2> QED  BY <2>1, <2>2
<1>10. Early'
  <2>1. CASE Answered(k)
    BY <2>1 DEF Answered, Early, Rows
  <2>2. CASE Started(k, Pending')
    <3>1. Counting'
      BY <2>2 DEF Started, Counting, Counts, UnderWay
    <3> QED  BY <2>2, <3>1 DEF Started, Early
  <2> QED  BY <2>1, <2>2
<1> QED  BY <1>2, <1>3, <1>4, <1>5, <1>6, <1>7, <1>8, <1>9, <1>10

\* Turning to another key reads it, and so keeps the invariant.
LEMMA TurnKeeps ==
    ASSUME IInv, NEW k \in Keys, Turn(k)
    PROVE  IInv'
<1>1. Answered(k) \/ Started(k, Pending)
  BY AskCases DEF IInv, Turn
<1>2. Pending' = Pending  BY DEF Turn, Pending
<1>3. /\ UNCHANGED <<part, held, version, writes, own>>
      /\ wants' \in Keys /\ strayed' = (k # wants')
  BY DEF Turn
<1>4. own \in Versions /\ own <= own /\ own <= version /\ writes \in [Hands -> Write]
  BY Typed DEF IInv, ScreenTypeOK, OwnKnown
<1> QED  BY <1>1, <1>2, <1>3, <1>4, AskKeeps

\* So does reading the same key again,
LEMMA RefreshKeeps ==
    ASSUME IInv, Refresh
    PROVE  IInv'
<1>1. wants \in Keys  BY DEF IInv, ScreenTypeOK
<1>2. Answered(wants) \/ Started(wants, Pending)
  BY <1>1, AskCases DEF IInv, Refresh
<1>3. Pending' = Pending  BY DEF Refresh, Pending
<1>4. /\ UNCHANGED <<part, held, version, writes, own, wants>>
      /\ strayed' = (wants # wants')
  BY DEF Refresh
<1>5. own \in Versions /\ own <= own /\ own <= version /\ writes \in [Hands -> Write]
  BY Typed DEF IInv, ScreenTypeOK, OwnKnown
<1> QED  BY <1>1, <1>2, <1>3, <1>4, <1>5, AskKeeps

\* ... the server reading its data for a load,
LEMMA ServeKeeps ==
    ASSUME IInv, NEW s \in AllSlots, Serve(s)
    PROVE  IInv'
<1> USE DEF IInv
<1>1. /\ loads' = [loads EXCEPT ![s] = [phase |-> "served", of |-> @.of, open |-> @.open,
                                        ver |-> version]]
      /\ UNCHANGED <<part, wants, rows, loading, newest, held, version, writes, own,
                     strayed, raced, failed>>
      /\ loads[s].phase = "asked"
  BY DEF Serve
<1>2. /\ \A t \in AllSlots : t # s => loads'[t] = loads[t]
      /\ loads'[s].phase = "served" /\ loads'[s].ver = version /\ loads'[s].of = loads[s].of
  BY <1>1 DEF ScreenTypeOK
<1>3. \A t \in AllSlots : UnderWay(t)' <=> UnderWay(t)
  BY <1>1, <1>2 DEF UnderWay
<1>4. Pending' = Pending /\ (Counting' <=> Counting) /\ (Excused' <=> Excused)
  BY <1>1, <1>3 DEF Pending, Counting, Counts, Excused, AllSlots
<1>5. ScreenTypeOK'
  <2>1. loads'[s] \in Load
    BY <1>1, Typed DEF ScreenTypeOK, Load
  <2> QED  BY <1>1, <1>2, <2>1 DEF ScreenTypeOK, Load, Write, Versions, AllSlots
<1>6. NewestUnderWay' /\ Spinner' /\ Rowed' /\ OwnKnown'
  BY <1>1, <1>2, <1>3 DEF NewestUnderWay, Spinner, LoadingEnds, Spins, Rowed, OwnKnown,
                          UnderWay, ScreenTypeOK, AllSlots
<1>7. Alone'
  BY <1>1, <1>3, <1>4 DEF Alone, UnderWay, AllSlots
<1>8. Fresh'
  BY <1>1, <1>2, <1>4, Typed DEF Fresh, ReadsOwn, OwnKnown, AllSlots
<1>9. Newer'
  BY <1>1, <1>2, Typed DEF Newer, DropsLate, Reloads, OwnKnown, ScreenTypeOK
<1>10. Early'
  BY <1>1, <1>4 DEF Early
<1> QED  BY <1>5, <1>6, <1>7, <1>8, <1>9, <1>10

\* ... an answer, in whatever order it comes,
LEMMA DeliverKeeps ==
    ASSUME IInv, NEW s \in AllSlots, Deliver(s)
    PROVE  IInv'
<1> USE DEF IInv
<1>1. /\ loads[s].phase = "served" /\ loads' = [loads EXCEPT ![s] = Idle]
      /\ newest' = IF newest = s THEN 0 ELSE newest
      /\ held' = IF part.cached THEN [held EXCEPT ![loads[s].of] = {loads[s].ver}] ELSE held
      /\ IF Counts(s)
         THEN rows' = Rows(loads[s].of, loads[s].ver) /\ failed' = FALSE
         ELSE UNCHANGED <<rows, failed>>
      /\ UNCHANGED <<part, wants, version, writes, own, strayed, raced>>
  BY DEF Deliver, Finish
<1>2. /\ \A t \in AllSlots : t # s => loads'[t] = loads[t]
      /\ loads'[s] = Idle /\ loads'[s].phase = "idle"
  BY <1>1 DEF ScreenTypeOK, Idle
<1>3. Pending' = Pending /\ loads[s].of \in Keys /\ loads[s].ver \in Versions /\ UnderWay(s)
  BY <1>1, Typed DEF Pending, UnderWay
<1>4. rows' \in [of : Keys, ver : Versions, early : SUBSET Hands]
  BY <1>1, <1>3 DEF Rows, ScreenTypeOK
<1>5. held' \in [Keys -> SUBSET Versions]
  BY <1>1, <1>3 DEF ScreenTypeOK
<1>6. ScreenTypeOK'
  <2>1. loads' \in [AllSlots -> Load]
    BY <1>1 DEF ScreenTypeOK, Load
  <2>2. loading' \in BOOLEAN
    BY DEF Deliver, Finish
  <2> QED  BY <1>1, <1>4, <1>5, <2>1, <2>2 DEF ScreenTypeOK, Versions, Write, AllSlots, Load
<1>7. NewestUnderWay' /\ OwnKnown'
  BY <1>1, <1>2 DEF NewestUnderWay, UnderWay, OwnKnown, ScreenTypeOK
<1>8. Spinner'
  BY ScreensAssumption, <1>2 DEF Deliver, Finish, Spinner, LoadingEnds, Spins, UnderWay,
                                 AllSlots, ScreenTypeOK, Disciplines
<1>9. Rowed'
  <2> SUFFICES ASSUME part.guard = "latest", ~strayed
               PROVE  IF newest' = 0 THEN failed' \/ rows'.of = wants
                                     ELSE loads'[newest'].of = wants
    BY <1>1 DEF Rowed
  <2>1. CASE newest = s
    <3>1. Counts(s) /\ loads[s].of = wants
      BY <2>1, ScreensAssumption DEF Counts, Rowed, AllSlots
    <3> QED  BY <1>1, <2>1, <3>1 DEF Rows
  <2>2. CASE newest # s
    <3>1. ~Counts(s)  BY <2>2 DEF Counts
    <3>2. newest # 0 => loads'[newest] = loads[newest]  BY <1>2, <2>2 DEF ScreenTypeOK
    <3> QED  BY <1>1, <2>2, <3>1, <3>2 DEF Rowed
  <2> QED  BY <2>1, <2>2
<1>10. Alone'
  BY <1>1, <1>2, <1>3 DEF Alone, UnderWay, AllSlots
<1>11. Counts(s) \/ (Counting => Counting')
  BY <1>1, <1>2 DEF Counting, Counts, UnderWay, AllSlots, ScreenTypeOK
<1>12. Fresh'
  <2> SUFFICES ASSUME ReadsOwn, ~raced
               PROVE  /\ rows'.ver >= own \/ Excused'
                      /\ \A t \in AllSlots : loads'[t].phase = "served" => loads'[t].ver >= own
                      /\ part.cached =>
                            /\ \A c \in Keys : \A v \in held'[c] : v >= own
                            /\ Pending # {} => \A c \in Keys : held'[c] = {}
                      /\ part.early = "undone" => \A h \in Pending : writes[h].before = rows'.ver
    BY <1>1, <1>3 DEF Fresh, ReadsOwn, AllSlots
  <2>1. Pending = {}
    BY <1>3 DEF Alone
  <2>2. loads[s].ver >= own
    BY <1>1 DEF Fresh
  <2>3. rows'.ver >= own \/ Excused'
    BY <1>1, <1>11, <2>2 DEF Fresh, Rows, Excused
  <2>4. \A t \in AllSlots : loads'[t].phase = "served" => loads'[t].ver >= own
    BY <1>2 DEF Fresh
  <2>5. part.cached => \A c \in Keys : \A v \in held'[c] : v >= own
    BY <1>1, <1>3, <2>2 DEF Fresh, ScreenTypeOK
  <2> QED  BY <2>1, <2>3, <2>4, <2>5
<1>13. Newer'
  BY <1>1, <1>2, Typed DEF Newer, DropsLate, Reloads, Rows, Counts, ScreenTypeOK
<1>14. Early'
  <2>1. Counts(s) => rows'.early = {}
    BY <1>1 DEF Rows
  <2>2. ~Counts(s) => rows' = rows /\ failed' = failed /\ (Counting => Counting')
    BY <1>1, <1>11
  <2> QED  BY <1>1, <1>3, <2>1, <2>2 DEF Early
<1> QED  BY <1>6, <1>7, <1>8, <1>9, <1>10, <1>12, <1>13, <1>14

\* ... an error of a load,
LEMMA FailLoadKeeps ==
    ASSUME IInv, NEW s \in AllSlots, FailLoad(s)
    PROVE  IInv'
<1> USE DEF IInv
<1>1. /\ UnderWay(s) /\ loads' = [loads EXCEPT ![s] = Idle]
      /\ newest' = IF newest = s THEN 0 ELSE newest
      /\ rows' = IF Counts(s) /\ part.fails = "empties" THEN Rows(loads[s].of, 0) ELSE rows
      /\ failed' = (failed \/ Counts(s))
      /\ UNCHANGED <<part, wants, held, version, writes, own, strayed, raced>>
  BY DEF FailLoad, Finish
<1>2. /\ \A t \in AllSlots : t # s => loads'[t] = loads[t]
      /\ loads'[s] = Idle /\ loads'[s].phase = "idle"
  BY <1>1 DEF ScreenTypeOK, Idle
<1>3. Pending' = Pending /\ loads[s].of \in Keys /\ 0 \in Versions
  BY <1>1, Typed, ScreensAssumption DEF Pending, UnderWay, Versions
<1>4. rows' \in [of : Keys, ver : Versions, early : SUBSET Hands]
  BY <1>1, <1>3 DEF Rows, ScreenTypeOK
<1>5. ScreenTypeOK'
  <2>1. loads' \in [AllSlots -> Load]
    BY <1>1 DEF ScreenTypeOK, Load
  <2>2. loading' \in BOOLEAN /\ failed' \in BOOLEAN
    BY DEF FailLoad, Finish, ScreenTypeOK
  <2> QED  BY <1>1, <1>4, <2>1, <2>2 DEF ScreenTypeOK, Versions, Write, AllSlots, Load
<1>6. NewestUnderWay' /\ OwnKnown'
  BY <1>1, <1>2 DEF NewestUnderWay, UnderWay, OwnKnown, ScreenTypeOK
<1>7. Spinner'
  BY ScreensAssumption, <1>2 DEF FailLoad, Finish, Spinner, LoadingEnds, Spins, UnderWay,
                                 AllSlots, ScreenTypeOK, Disciplines
<1>8. Rowed'
  BY <1>1, <1>2 DEF Rowed, Counts, ScreenTypeOK
<1>9. Alone'
  BY <1>1, <1>2, <1>3 DEF Alone, UnderWay, AllSlots
<1>10. failed' \/ (rows' = rows /\ failed' = failed /\ (Counting => Counting'))
  BY <1>1, <1>2 DEF Counting, Counts, UnderWay, AllSlots, ScreenTypeOK
<1>11. Fresh'
  <2> SUFFICES ASSUME ReadsOwn, ~raced
               PROVE  /\ rows'.ver >= own \/ Excused'
                      /\ \A t \in AllSlots : loads'[t].phase = "served" => loads'[t].ver >= own
                      /\ part.early = "undone" => \A h \in Pending : writes[h].before = rows'.ver
    BY <1>1, <1>3 DEF Fresh, ReadsOwn, AllSlots
  <2>1. Pending = {}
    BY <1>1 DEF Alone
  <2>2. rows'.ver >= own \/ Excused'
    BY <1>1, <1>10 DEF Fresh, Excused
  <2>3. \A t \in AllSlots : loads'[t].phase = "served" => loads'[t].ver >= own
    BY <1>2 DEF Fresh
  <2> QED  BY <2>1, <2>2, <2>3
<1>12. Newer'
  BY <1>1, <1>2, Typed DEF Newer, DropsLate, Reloads, Counts, ScreenTypeOK
<1>13. Early'
  BY <1>1, <1>3, <1>10 DEF Early, Rows
<1> QED  BY <1>5, <1>6, <1>7, <1>8, <1>9, <1>11, <1>12, <1>13

\* ... a write, which voids the cache before it leaves,
LEMMA SendKeeps ==
    ASSUME IInv, NEW h \in Hands, Send(h)
    PROVE  IInv'
<1> USE DEF IInv
<1>1. /\ part.writes /\ h \notin Pending
      /\ writes' = [writes EXCEPT ![h] = [phase |-> "sent", of |-> wants, before |-> Remembered]]
      /\ rows' = IF part.early = "no" THEN rows ELSE [rows EXCEPT !.early = @ \cup {h}]
      /\ raced' = (raced \/ ~Quiet)
      /\ UNCHANGED <<part, wants, loading, newest, version, own, strayed, failed>>
  BY DEF Send
<1>2. IF part.cached /\ part.voids
      THEN /\ held' = [k \in Keys |-> {}]
           /\ loads' = [t \in AllSlots |-> IF UnderWay(t) THEN [loads[t] EXCEPT !.open = FALSE]
                                                          ELSE Idle]
      ELSE UNCHANGED <<held, loads>>
  BY DEF Send
<1>3. /\ writes'[h] = [phase |-> "sent", of |-> wants, before |-> Remembered]
      /\ \A i \in Hands : i # h => writes'[i] = writes[i]
  BY <1>1 DEF ScreenTypeOK
<1>4. Pending' = Pending \cup {h}
  BY <1>1, <1>3 DEF Pending
<1>5. \A t \in AllSlots :
         /\ loads'[t] \in Load /\ loads'[t].phase = loads[t].phase
         /\ UnderWay(t)' <=> UnderWay(t)
         /\ UnderWay(t) => loads'[t].of = loads[t].of
         /\ loads[t].phase = "served" => loads'[t].ver = loads[t].ver
  <2> SUFFICES ASSUME NEW t \in AllSlots
               PROVE  /\ loads'[t] \in Load /\ loads'[t].phase = loads[t].phase
                      /\ UnderWay(t)' <=> UnderWay(t)
                      /\ UnderWay(t) => loads'[t].of = loads[t].of
                      /\ loads[t].phase = "served" => loads'[t].ver = loads[t].ver
    OBVIOUS
  <2>1. loads[t] \in Load  BY DEF ScreenTypeOK
  <2>2. CASE loads'[t] = loads[t]  BY <2>1, <2>2 DEF UnderWay
  <2>3. CASE UnderWay(t) /\ loads'[t] = [loads[t] EXCEPT !.open = FALSE]
    BY <2>1, <2>3 DEF UnderWay, Load, Idle
  <2>4. CASE ~UnderWay(t) /\ loads'[t] = Idle
    BY <2>1, <2>4 DEF UnderWay, Load, Idle
  <2> QED  BY <1>2, <2>2, <2>3, <2>4
<1>6. (Counting' <=> Counting) /\ rows'.of = rows.of /\ rows'.ver = rows.ver
  BY <1>1, <1>5 DEF Counting, Counts, AllSlots, ScreenTypeOK
<1>7. ScreenTypeOK'
  <2>1. Remembered \in Versions
    BY ScreensAssumption DEF Remembered, ScreenTypeOK, Versions
  <2>2. writes' \in [Hands -> Write]
    BY <1>1, <2>1 DEF ScreenTypeOK, Write
  <2>3. rows' \in [of : Keys, ver : Versions, early : SUBSET Hands]
    BY <1>1 DEF ScreenTypeOK
  <2>4. loads' \in [AllSlots -> Load]
    BY <1>2, <1>5 DEF ScreenTypeOK
  <2>5. held' \in [Keys -> SUBSET Versions]
    BY <1>2 DEF ScreenTypeOK
  <2>6. raced' \in BOOLEAN
    BY <1>1 DEF ScreenTypeOK, Quiet
  <2> QED  BY <1>1, <2>2, <2>3, <2>4, <2>5, <2>6 DEF ScreenTypeOK, Versions, Write, AllSlots, Load
<1>8. NewestUnderWay' /\ Spinner' /\ OwnKnown'
  BY <1>1, <1>3, <1>5 DEF NewestUnderWay, Spinner, LoadingEnds, Spins, OwnKnown, AllSlots, ScreenTypeOK
<1>9. Rowed'
  BY <1>1, <1>5, <1>6 DEF Rowed, NewestUnderWay, ScreenTypeOK
<1>10. ~raced' => Pending = {} /\ \A t \in AllSlots : ~UnderWay(t)
  BY <1>1 DEF Quiet
<1>11. Alone'
  BY <1>4, <1>5, <1>10 DEF Alone, AllSlots
<1>12. Fresh'
  <2> SUFFICES ASSUME ReadsOwn, ~raced'
               PROVE  /\ rows'.ver >= own \/ Excused'
                      /\ \A t \in AllSlots : loads'[t].phase = "served" => loads'[t].ver >= own
                      /\ part.cached => \A c \in Keys : held'[c] = {}
                      /\ part.early = "undone" => \A i \in Pending' : writes'[i].before = rows'.ver
    BY <1>1, <1>3 DEF Fresh, ReadsOwn, AllSlots
  <2>1. ~raced /\ Pending' = {h}
    BY <1>1, <1>4, <1>10
  <2>2. rows'.ver >= own \/ Excused'
    BY <1>1, <1>6, <2>1 DEF Fresh, Excused
  <2>3. \A t \in AllSlots : loads'[t].phase = "served" => loads'[t].ver >= own
    BY <1>5, <2>1 DEF Fresh
  <2>4. part.cached => \A c \in Keys : held'[c] = {}
    BY <1>2 DEF ReadsOwn
  <2>5. part.early = "undone" => \A i \in Pending' : writes'[i].before = rows'.ver
    BY <1>3, <1>6, <2>1 DEF Remembered
  <2> QED  BY <2>2, <2>3, <2>4, <2>5
<1>13. Newer'
  BY <1>1, <1>5, <1>6, Typed DEF Newer, DropsLate, Reloads, ScreenTypeOK
<1>14. Early'
  BY <1>1, <1>4, <1>6 DEF Early, ScreenTypeOK
<1> QED  BY <1>7, <1>8, <1>9, <1>11, <1>12, <1>13, <1>14

\* ... the server applying it,
LEMMA ApplyKeeps ==
    ASSUME IInv, NEW h \in Hands, Apply(h)
    PROVE  IInv'
<1> USE DEF IInv
<1>1. /\ writes[h].phase = "sent" /\ version < MaxVersion /\ version' = version + 1
      /\ writes' = [writes EXCEPT ![h] = [phase |-> "applied", of |-> @.of, before |-> @.before,
                                          ver |-> version + 1]]
      /\ UNCHANGED <<part, wants, rows, loading, loads, newest, held, own, strayed,
                     raced, failed>>
  BY DEF Apply
<1>2. /\ writes'[h] = [phase |-> "applied", of |-> writes[h].of, before |-> writes[h].before,
                       ver |-> version + 1]
      /\ \A i \in Hands : i # h => writes'[i] = writes[i]
  BY <1>1 DEF ScreenTypeOK
<1>3. Pending' = Pending /\ (Counting' <=> Counting) /\ (Excused' <=> Excused)
  BY <1>1, <1>2 DEF Pending, Counting, Counts, UnderWay, Excused
<1>4. version' \in Versions /\ version <= version'
  BY <1>1, ScreensAssumption DEF ScreenTypeOK, Versions
<1>5. ScreenTypeOK'
  <2>1. writes'[h] \in Write
    BY <1>1, <1>2, <1>4, Typed DEF Write
  <2>2. writes' \in [Hands -> Write]
    BY <1>1, <1>2, <2>1 DEF ScreenTypeOK
  <2> QED  BY <1>1, <1>4, <2>2 DEF ScreenTypeOK, Versions, Write, AllSlots, Load
<1>6. NewestUnderWay' /\ Spinner' /\ Rowed' /\ Newer'
  BY <1>1 DEF NewestUnderWay, Spinner, LoadingEnds, Spins, Rowed, UnderWay, Newer, DropsLate,
              Reloads
<1>7. OwnKnown'
  BY <1>1, <1>2, <1>4, Typed DEF OwnKnown
<1>8. Alone'
  BY <1>1, <1>3 DEF Alone, UnderWay
<1>9. Fresh'
  BY <1>1, <1>2, <1>3 DEF Fresh, ReadsOwn
<1>10. Early'
  BY <1>1, <1>3 DEF Early
<1> QED  BY <1>5, <1>6, <1>7, <1>8, <1>9, <1>10

\* What ends a write, its reload apart.
LEMMA EndOfWrite ==
    ASSUME IInv, NEW h \in Hands, h \in Pending, writes' = [writes EXCEPT ![h] = Idle]
    PROVE  /\ Pending' = Pending \ {h}
           /\ writes' \in [Hands -> Write] /\ writes'[h] = Idle
           /\ \A i \in Hands : writes'[i] = writes[i] \/ writes'[i] = Idle
           /\ \A i \in Hands : i # h => writes'[i] = writes[i]
<1>1. writes' \in [Hands -> Write] /\ writes'[h] = Idle
  BY DEF IInv, ScreenTypeOK, Write
<1>2. \A i \in Hands : i # h => writes'[i] = writes[i]
  BY DEF IInv, ScreenTypeOK
<1>3. Pending' = Pending \ {h}
  BY <1>1, <1>2 DEF Pending, Idle
<1> QED  BY <1>1, <1>2, <1>3

\* The end of a write that reads nothing again: w is the version the rows are
\* left with, o the version the handler has been told.
LEMMA EndKeeps ==
    ASSUME IInv, NEW h \in Hands, h \in Pending, writes' = [writes EXCEPT ![h] = Idle],
           UNCHANGED <<part, wants, held, version, loading, loads, newest, raced, failed>>,
           strayed' \in BOOLEAN, strayed => strayed',
           own' \in Versions, own <= own', own' <= version,
           rows' \in [of : Keys, ver : Versions, early : SUBSET Hands], rows'.of = rows.of,
           rows'.early \subseteq rows.early,
           part.early # "kept" => h \notin rows'.early,
           ~Reloads \/ own' = own,
           rows'.ver >= rows.ver \/ ~DropsLate,
           (ReadsOwn /\ ~raced) => rows'.ver >= own' \/ Excused'
    PROVE  IInv'
<1> USE DEF IInv
<1>1. /\ Pending' = Pending \ {h}
      /\ writes' \in [Hands -> Write] /\ writes'[h] = Idle
      /\ \A i \in Hands : i # h => writes'[i] = writes[i]
  BY EndOfWrite
<1>2. ScreenTypeOK'
  BY <1>1 DEF ScreenTypeOK, Versions, Write, AllSlots, Load
<1>3. NewestUnderWay' /\ Spinner' /\ Rowed'
  BY DEF NewestUnderWay, Spinner, LoadingEnds, Spins, Rowed, UnderWay
<1>4. OwnKnown'
  BY <1>1 DEF OwnKnown, Idle
<1>5. Alone' /\ (~raced => Pending' = {} /\ \A t \in AllSlots : ~UnderWay(t))
  BY <1>1 DEF Alone, UnderWay
<1>6. Fresh'
  BY <1>5, Typed DEF Fresh, ReadsOwn, UnderWay
<1>7. Newer'
  BY Typed DEF Newer, DropsLate, Reloads, ScreenTypeOK
<1>8. (Counting' <=> Counting)
  BY DEF Counting, Counts, UnderWay
<1>9. Early'
  BY <1>1, <1>8 DEF Early
<1> QED  BY <1>2, <1>3, <1>4, <1>5, <1>6, <1>7, <1>9

\* ... its confirmation, with the reload or the patch that follows,
LEMMA ConfirmKeeps ==
    ASSUME IInv, NEW h \in Hands, Confirm(h)
    PROVE  IInv'
<1>1. /\ writes[h].phase = "applied" /\ h \in Pending
      /\ own' = Later(own, writes[h].ver)
      /\ writes' = [writes EXCEPT ![h] = Idle]
      /\ UNCHANGED <<part, wants, held, version>>
  BY DEF Confirm, Pending
<1>2. /\ own \in Nat /\ writes[h].ver \in Nat /\ writes[h].of \in Keys
      /\ writes[h].ver \in Versions /\ own \in Versions /\ rows.ver \in Nat
  BY <1>1, Typed DEF IInv, ScreenTypeOK
<1>3. own' \in Versions /\ own <= own' /\ writes[h].ver <= own' /\ own' <= version
  BY <1>1, <1>2, Typed DEF Later, IInv, OwnKnown
<1>4. /\ Pending' = Pending \ {h}
      /\ writes' \in [Hands -> Write]
      /\ \A i \in Hands : writes'[i] = writes[i] \/ writes'[i] = Idle
  BY <1>1, EndOfWrite
<1>5. CASE part.then \in {"reload", "always"}
  <2>1. ReloadAfter(h)
    BY <1>5 DEF Confirm
  <2>2. Answered(writes[h].of) \/ Started(writes[h].of, Pending')
    BY <1>2, <1>4, <2>1, AskCases DEF IInv, ReloadAfter
  <2>3. wants' \in Keys /\ strayed' = (writes[h].of # wants')
    BY <1>1, <2>1 DEF ReloadAfter, IInv, ScreenTypeOK
  <2>4. Pending # {}
    BY <1>1
  <2> QED  BY <1>1, <1>2, <1>3, <1>4, <2>2, <2>3, <2>4, AskKeeps
<1>6. CASE part.then = "patch"
  <2>1. Patch(h)
    BY <1>6 DEF Confirm
  <2>2. /\ rows'.of = rows.of /\ rows'.early = rows.early \ {h}
        /\ rows'.ver = IF rows.of = writes[h].of THEN Later(rows.ver, writes[h].ver)
                                                 ELSE rows.ver
        /\ rows' \in [of : Keys, ver : Versions, early : SUBSET Hands]
        /\ UNCHANGED <<loading, loads, newest, raced, failed>>
        /\ strayed' = (strayed \/ writes[h].of # wants)
    BY <1>2, <2>1 DEF Patch, IInv, ScreenTypeOK, Later
  <2>3. ~Reloads  BY <1>6 DEF Reloads
  <2>4. ~DropsLate  BY <2>3 DEF DropsLate
  <2>5. strayed' \in BOOLEAN /\ (strayed => strayed')
    BY <2>2 DEF IInv, ScreenTypeOK
  <2>6. (ReadsOwn /\ ~raced) => rows'.ver >= own' \/ Excused'
    <3>1. (ReadsOwn /\ ~raced) => rows.ver >= own \/ Excused
      BY DEF IInv, Fresh
    <3>2. Excused => Excused'
      BY <1>1, <2>2, <2>5 DEF Excused, Counting, Counts, UnderWay
    <3>3. rows.of # writes[h].of => Excused'
      BY <1>1, <2>2 DEF Excused
    <3> QED  BY <1>1, <1>2, <2>2, <3>1, <3>2, <3>3 DEF Later
  <2> HIDE DEF IInv
  <2> QED  BY <1>1, <1>3, <2>2, <2>3, <2>4, <2>5, <2>6, EndKeeps
<1>7. CASE part.then = "none"
  <2>1. Settle(h)
    BY <1>7 DEF Confirm
  <2>2. /\ rows'.of = rows.of /\ rows'.early = rows.early \ {h} /\ rows'.ver = rows.ver
        /\ rows' \in [of : Keys, ver : Versions, early : SUBSET Hands]
        /\ UNCHANGED <<loading, loads, newest, strayed, raced, failed>>
    BY <2>1 DEF Settle, IInv, ScreenTypeOK
  <2>3. ~Reloads /\ ~ReadsOwn  BY <1>7 DEF Reloads, ReadsOwn
  <2>4. ~DropsLate  BY <2>3 DEF DropsLate
  <2>5. strayed' \in BOOLEAN
    BY <2>2 DEF IInv, ScreenTypeOK
  <2> QED  BY <1>1, <1>3, <2>2, <2>3, <2>4, <2>5, EndKeeps
<1> QED  BY <1>5, <1>6, <1>7 DEF Confirm

\* ... its refusal, with what is put back or read again,
LEMMA RefuseKeeps ==
    ASSUME IInv, NEW h \in Hands, Refuse(h)
    PROVE  IInv'
<1>1. /\ h \in Pending /\ writes' = [writes EXCEPT ![h] = Idle]
      /\ UNCHANGED <<part, wants, held, version, own>>
  BY DEF Refuse
<1>2. /\ writes[h].of \in Keys /\ writes[h].before \in Versions /\ writes[h].before \in Nat
      /\ own \in Versions /\ own \in Nat /\ own <= version /\ rows.ver \in Nat
  BY <1>1, Typed DEF IInv, ScreenTypeOK, OwnKnown, Pending
<1>3. /\ Pending' = Pending \ {h}
      /\ writes' \in [Hands -> Write]
      /\ \A i \in Hands : writes'[i] = writes[i] \/ writes'[i] = Idle
  BY <1>1, EndOfWrite
<1>4. CASE part.then = "always"
  <2>1. ReloadAfter(h)
    BY <1>4 DEF Refuse
  <2>2. Answered(writes[h].of) \/ Started(writes[h].of, Pending')
    BY <1>2, <1>3, <2>1, AskCases DEF IInv, ReloadAfter
  <2>3. wants' \in Keys /\ strayed' = (writes[h].of # wants')
    BY <1>1, <2>1 DEF ReloadAfter, IInv, ScreenTypeOK
  <2>4. own <= own  BY <1>2
  <2> QED  BY <1>1, <1>2, <1>3, <2>2, <2>3, <2>4, AskKeeps
<1>5. CASE part.then # "always"
  <2>1. /\ rows' = IF part.early = "undone" THEN PutBack(h) ELSE rows
        /\ UNCHANGED <<loading, loads, newest, strayed, raced, failed>>
    BY <1>5 DEF Refuse
  <2>2. /\ rows'.of = rows.of /\ rows'.early \subseteq rows.early
        /\ rows'.ver = IF part.early = "undone" /\ rows.of = writes[h].of
                       THEN writes[h].before ELSE rows.ver
        /\ rows' \in [of : Keys, ver : Versions, early : SUBSET Hands]
    BY <1>2, <2>1 DEF PutBack, IInv, ScreenTypeOK
  <2>3. part.early \in {"no", "undone", "kept"}
    BY DEF IInv, ScreenTypeOK, Disciplines
  <2>4. part.early # "kept" => h \notin rows'.early
    BY <2>1, <2>3 DEF PutBack, IInv, ScreenTypeOK, Early
  <2>5. rows'.ver >= rows.ver \/ ~DropsLate
    BY <1>2, <2>2 DEF DropsLate
  <2>6. (ReadsOwn /\ ~raced) => rows'.ver >= own \/ Excused'
    <3>1. (ReadsOwn /\ ~raced) => rows.ver >= own \/ Excused
      BY DEF IInv, Fresh
    <3>2. Excused => Excused'
      BY <1>1, <2>1, <2>2 DEF Excused, Counting, Counts, UnderWay
    <3>3. (ReadsOwn /\ ~raced /\ part.early = "undone") => writes[h].before = rows.ver
      BY <1>1 DEF IInv, Fresh
    <3> QED  BY <1>2, <2>2, <3>1, <3>2, <3>3
  <2>7. own <= own /\ strayed' \in BOOLEAN
    BY <1>2, <2>1 DEF IInv, ScreenTypeOK
  <2> QED  BY <1>1, <1>2, <2>1, <2>2, <2>4, <2>5, <2>6, <2>7, EndKeeps
<1> QED  BY <1>4, <1>5

\* ... an entry of the cache getting old,
LEMMA ExpireKeeps ==
    ASSUME IInv, NEW k \in Keys, ExpireEntry(k)
    PROVE  IInv'
<1> USE DEF IInv
<1>1. /\ held' = [held EXCEPT ![k] = {}]
      /\ UNCHANGED <<part, wants, rows, loading, loads, newest, version, writes, own,
                     strayed, raced, failed>>
  BY DEF ExpireEntry
<1>2. ScreenTypeOK'
  BY <1>1 DEF ScreenTypeOK, Versions, Write, AllSlots, Load
<1>3. NewestUnderWay' /\ Spinner' /\ Rowed' /\ OwnKnown' /\ Alone' /\ Newer' /\ Early'
  BY <1>1 DEF NewestUnderWay, Spinner, LoadingEnds, Spins, Rowed, OwnKnown, Alone, Newer,
              DropsLate, Reloads, Early, Counting, Counts, UnderWay, Pending
<1>4. Pending' = Pending /\ (Excused' <=> Excused)
  BY <1>1 DEF Excused, Counting, Counts, UnderWay, Pending
<1>5. Fresh'
  BY <1>1, <1>4 DEF Fresh, ReadsOwn, ScreenTypeOK
<1> QED  BY <1>2, <1>3, <1>5

\* ... and a change by someone else.
LEMMA OthersChangeKeeps ==
    ASSUME IInv, OthersChange
    PROVE  IInv'
<1> USE DEF IInv
<1>1. /\ version < MaxVersion /\ version' = version + 1
      /\ UNCHANGED <<part, wants, rows, loading, loads, newest, held, writes, own,
                     strayed, raced, failed>>
  BY DEF OthersChange
<1>2. version' \in Versions /\ version <= version'
  BY <1>1, ScreensAssumption DEF ScreenTypeOK, Versions
<1>3. ScreenTypeOK'
  BY <1>1, <1>2 DEF ScreenTypeOK, Versions, Write, AllSlots, Load
<1>4. NewestUnderWay' /\ Spinner' /\ Rowed' /\ Alone' /\ Newer' /\ Early'
  BY <1>1 DEF NewestUnderWay, Spinner, LoadingEnds, Spins, Rowed, Alone, Newer,
              DropsLate, Reloads, Early, Counting, Counts, UnderWay, Pending
<1>5. OwnKnown'
  BY <1>1, <1>2, Typed DEF OwnKnown
<1>6. Pending' = Pending /\ (Excused' <=> Excused)
  BY <1>1 DEF Excused, Counting, Counts, UnderWay, Pending
<1>7. Fresh'
  BY <1>1, <1>6 DEF Fresh, ReadsOwn
<1> QED  BY <1>3, <1>4, <1>5, <1>7

\* The screen opens in the invariant,
LEMMA InitIInv == ScreenInit => IInv
<1> SUFFICES ASSUME ScreenInit PROVE IInv
  OBVIOUS
<1>1. 0 \in Versions /\ 0 \in Nat
  BY ScreensAssumption DEF Versions
<1>2. ScreenTypeOK
  BY <1>1, ScreensAssumption DEF ScreenInit, ScreenTypeOK, Rows, Idle, Load, Write
<1>3. /\ Pending = {} /\ \A s \in AllSlots : ~UnderWay(s)
      /\ \A h \in Hands : writes[h].phase = "idle"
      /\ \A s \in AllSlots : loads[s].phase = "idle"
  BY DEF ScreenInit, Idle, Pending, UnderWay
<1>4. NewestUnderWay /\ Spinner /\ Rowed /\ Alone /\ Early
  BY <1>3 DEF ScreenInit, NewestUnderWay, Spinner, Rowed, Rows, Alone, Early
<1>5. OwnKnown /\ Fresh /\ Newer
  BY <1>3 DEF ScreenInit, OwnKnown, Fresh, Newer, Rows
<1> QED  BY <1>2, <1>4, <1>5 DEF IInv

\* and no step leaves it.
LEMMA StepKeeps == IInv /\ [ScreenNext]_screenVars => IInv'
<1> SUFFICES ASSUME IInv, [ScreenNext]_screenVars PROVE IInv'
  OBVIOUS
<1>1. CASE ScreenNext
  BY <1>1, TurnKeeps, ExpireKeeps, RefreshKeeps, OthersChangeKeeps, ServeKeeps, DeliverKeeps,
     FailLoadKeeps, SendKeeps, ApplyKeeps, ConfirmKeeps, RefuseKeeps DEF ScreenNext
<1>2. CASE UNCHANGED screenVars
  BY <1>2 DEF screenVars, IInv, ScreenTypeOK, NewestUnderWay, Spinner, LoadingEnds, Spins, Rowed, OwnKnown,
              Alone, Fresh, ReadsOwn, Excused, Newer, DropsLate, Reloads, Early, Counting,
              Counts, UnderWay, Pending
<1> QED  BY <1>1, <1>2

\* The invariant of the screens, for every table, any keys, and any number of
\* loads and writes under way.
THEOREM ScreensInvariant == ScreenSpec => []IInv
<1>1. ScreenInit => IInv  BY InitIInv
<1>2. IInv /\ [ScreenNext]_screenVars => IInv'  BY StepKeeps
<1> QED  BY <1>1, <1>2, PTL DEF ScreenSpec

\* The variables keep their types.
THEOREM ScreensTyped == ScreenSpec => []ScreenTypeOK
<1>1. IInv => ScreenTypeOK  BY DEF IInv
<1> QED  BY <1>1, ScreensInvariant, PTL

\* A screen whose loads have a guard ends with the rows of the key it is about.
THEOREM RowsOfKeyHolds == ScreenSpec => []RowsOfKey
<1>1. IInv => RowsOfKey
  <2> SUFFICES ASSUME IInv, Quiet, part.guard = "latest", ~failed, ~strayed
               PROVE  rows.of = wants
    BY DEF RowsOfKey
  <2>1. newest = 0
    BY DEF IInv, NewestUnderWay, Quiet, ScreenTypeOK
  <2> QED  BY <2>1 DEF IInv, Rowed
<1> QED  BY <1>1, ScreensInvariant, PTL

\* The spinner of a screen does not outlive its loads.
THEOREM LoadingEndsHolds == ScreenSpec => []LoadingEnds
<1>1. IInv => LoadingEnds
  BY DEF IInv, Spinner, LoadingEnds
<1> QED  BY <1>1, ScreensInvariant, PTL

\* A confirmed write is in the rows read again, and a refused one is not.
THEOREM WriteShownHolds == ScreenSpec => []WriteShown
<1>1. IInv => WriteShown
  <2> SUFFICES ASSUME IInv, Quiet, ~failed, ~strayed, rows.of = wants, part.writes
               PROVE  /\ ((ReadsOwn /\ ~raced) \/ DropsLate) => rows.ver >= own
                      /\ part.early # "kept" => rows.early = {}
    BY DEF WriteShown
  <2>1. ~Counting /\ Pending = {}
    BY DEF Counting, Quiet
  <2>2. newest = 0
    BY DEF IInv, NewestUnderWay, Quiet, ScreenTypeOK
  <2>3. (ReadsOwn /\ ~raced) => rows.ver >= own
    BY <2>1 DEF IInv, Fresh, Excused
  <2>4. DropsLate => rows.ver >= own
    BY <2>2 DEF IInv, Newer
  <2>5. part.early # "kept" => rows.early = {}
    BY <2>1 DEF IInv, Early
  <2> QED  BY <2>3, <2>4, <2>5
<1> QED  BY <1>1, ScreensInvariant, PTL
=============================================================================
