------------------------------ MODULE Screens ------------------------------
(***************************************************************************)
(* A screen of the front end: it loads the rows of the key it is about,    *)
(* shows them, sends the writes of its buttons and reads the rows again.   *)
(* Answers come in any order, and a read goes through the read cache of    *)
(* lib/api.js, here reduced to what is held, what can be joined, and what  *)
(* a write removes (ReadCache has its ages and its stores).                *)
(*                                                                         *)
(* Every behaviour is one load of one page with one of the page's writes:  *)
(* `part' is its discipline, and the tables say which there are.           *)
(***************************************************************************)
EXTENDS ScreenConstants, FiniteSets

VARIABLES
    part,       \* the discipline of this behaviour, which never changes
    wants,      \* the key the screen is about
    rows,       \* what it shows: rows of a key, as old as a version, and the
                \* writes they show already though nobody confirmed them
    loading,    \* the spinner
    loads,      \* loads[s]: a load under way
    newest,     \* the slot of the newest load, 0 when it is answered
    held,       \* held[k]: the version the read cache holds, if any
    version,    \* what the server would answer now
    writes,     \* writes[h]: a write under way
    own,        \* history: the version the last confirmed write made
    strayed,    \* history: a handler reloaded a key that is no longer wanted
    raced,      \* history: a request overlapped a write
    failed      \* history: the last load that counts failed

screenVars ==
    <<part, wants, rows, loading, loads, newest, held, version, writes, own,
      strayed, raced, failed>>

-----------------------------------------------------------------------------
Versions == 0..MaxVersion
AllSlots == Slots["latest"] \cup Slots["any"]
Idle == [phase |-> "idle"]
AskedFor(k) == [phase |-> "asked", of |-> k, open |-> TRUE]
Rows(k, v) == [of |-> k, ver |-> v, early |-> {}]
Later(v, w) == IF v < w THEN w ELSE v

ScreenInit ==
    /\ part \in Parts
    /\ wants = First
    /\ rows = Rows(First, 0)
    /\ loading = FALSE
    /\ loads = [s \in AllSlots |-> Idle]
    /\ newest = 0
    /\ held = [k \in Keys |-> {}]
    /\ version = 0 /\ own = 0
    /\ writes = [h \in Hands |-> Idle]
    /\ strayed = FALSE /\ raced = FALSE /\ failed = FALSE

UnderWay(s) == loads[s].phase # "idle"
Pending == {h \in Hands : writes[h].phase # "idle"}
Quiet == Pending = {} /\ \A s \in AllSlots : ~UnderWay(s)
\* Broken: no answer is dropped.
CountsAlways(s) == TRUE

\* Does load s still fill the screen?
Counts(s) == part.guard = "any" \/ newest = s
Spins == part.busy # "none"
Joinable(s, k) == UnderWay(s) /\ loads[s].of = k /\ loads[s].open

-----------------------------------------------------------------------------
\* Broken: an answer of the cache leaves the spinner to the load before.
FromCacheSpins(k) ==
    /\ part.cached
    /\ \E v \in held[k] : rows' = Rows(k, v)
    /\ failed' = FALSE /\ newest' = 0
    /\ UNCHANGED <<loading, loads, raced>>

\* The load of key k is answered by the cache, or by a request under way for k,
\* or by a new one; hands are the writes under way beside it.
FromCache(k) ==
    /\ part.cached
    /\ \E v \in held[k] : rows' = Rows(k, v)
    /\ loading' = FALSE /\ failed' = FALSE
    /\ newest' = 0
    /\ UNCHANGED <<loads, raced>>

Join(k, hands) ==
    /\ part.cached /\ held[k] = {}
    /\ \E s \in AllSlots : Joinable(s, k) /\ newest' = s
    /\ loading' = Spins
    /\ raced' = (raced \/ hands # {})
    /\ UNCHANGED <<rows, loads, failed>>

Request(k, hands) ==
    /\ part.cached => held[k] = {} /\ \A s \in AllSlots : ~Joinable(s, k)
    /\ \E s \in Slots[part.guard] :
          /\ ~UnderWay(s)
          /\ loads' = [loads EXCEPT ![s] = AskedFor(k)]
          /\ newest' = s
    /\ loading' = Spins
    /\ raced' = (raced \/ hands # {})
    /\ UNCHANGED <<rows, failed>>

Ask(k, hands) == FromCache(k) \/ Join(k, hands) \/ Request(k, hands)

\* The user turns to another key.
Turn(k) ==
    /\ part.keyed /\ k # wants
    /\ Ask(k, Pending)
    /\ wants' = k /\ strayed' = FALSE
    /\ UNCHANGED <<part, held, version, writes, own>>

\* A timer, an event of the server, a button: the same key again.
Refresh ==
    /\ part.again
    /\ Ask(wants, Pending)
    /\ strayed' = FALSE
    /\ UNCHANGED <<part, wants, held, version, writes, own>>

Serve(s) ==
    /\ loads[s].phase = "asked"
    /\ loads' = [loads EXCEPT ![s] = [phase |-> "served", of |-> @.of, open |-> @.open,
                                      ver |-> version]]
    /\ UNCHANGED <<part, wants, rows, loading, newest, held, version, writes,
                   own, strayed, raced, failed>>

\* What the end of load s does to the spinner and to the books.
Finish(s) ==
    /\ loads' = [loads EXCEPT ![s] = Idle]
    /\ newest' = IF newest = s THEN 0 ELSE newest
    /\ loading' = (loading /\ ~(part.busy = "each" \/ (part.busy = "latest" /\ newest = s)))

\* The cache keeps the answer even if it was cleared meanwhile (apiFetch).
Deliver(s) ==
    /\ loads[s].phase = "served"
    /\ Finish(s)
    /\ held' = IF part.cached THEN [held EXCEPT ![loads[s].of] = {loads[s].ver}] ELSE held
    /\ IF Counts(s)
       THEN rows' = Rows(loads[s].of, loads[s].ver) /\ failed' = FALSE
       ELSE UNCHANGED <<rows, failed>>
    /\ UNCHANGED <<part, wants, version, writes, own, strayed, raced>>

FailLoad(s) ==
    /\ UnderWay(s)
    /\ Finish(s)
    /\ rows' = IF Counts(s) /\ part.fails = "empties" THEN Rows(loads[s].of, 0) ELSE rows
    /\ failed' = (failed \/ Counts(s))
    /\ UNCHANGED <<part, wants, held, version, writes, own, strayed, raced>>

-----------------------------------------------------------------------------
\* What the handler will put back: what it saw, if it puts anything back.
Remembered == IF part.early = "undone" THEN rows.ver ELSE 0

\* Broken: the write leaves the read cache as it is.
SendOnly(h) ==
    /\ part.writes /\ h \notin Pending
    /\ part.once => Pending = {}
    /\ writes' = [writes EXCEPT ![h] = [phase |-> "sent", of |-> wants, before |-> Remembered]]
    /\ rows' = IF part.early = "no" THEN rows ELSE [rows EXCEPT !.early = @ \cup {h}]
    /\ raced' = (raced \/ ~Quiet)
    /\ UNCHANGED <<part, wants, loading, loads, newest, held, version, own,
                   strayed, failed>>

\* invalidateOnMutation comes before the request, and then, on some screens,
\* the change in the rows that nobody confirmed yet.
Send(h) ==
    /\ part.writes /\ h \notin Pending
    /\ part.once => Pending = {}
    /\ writes' = [writes EXCEPT ![h] = [phase |-> "sent", of |-> wants, before |-> Remembered]]
    /\ IF part.cached /\ part.voids
       THEN /\ held' = [k \in Keys |-> {}]
            /\ loads' = [s \in AllSlots |-> IF UnderWay(s) THEN [loads[s] EXCEPT !.open = FALSE]
                                                       ELSE Idle]
       ELSE UNCHANGED <<held, loads>>
    /\ rows' = IF part.early = "no" THEN rows ELSE [rows EXCEPT !.early = @ \cup {h}]
    /\ raced' = (raced \/ ~Quiet)
    /\ UNCHANGED <<part, wants, loading, newest, version, own, strayed,
                   failed>>

Apply(h) ==
    /\ h \in Pending /\ writes[h].phase = "sent" /\ version < MaxVersion
    /\ version' = version + 1
    /\ writes' = [writes EXCEPT ![h] = [phase |-> "applied", of |-> @.of, before |-> @.before,
                                        ver |-> version + 1]]
    /\ UNCHANGED <<part, wants, rows, loading, loads, newest, held, own,
                   strayed, raced, failed>>

\* The handler goes on with the key it closed over when the write was sent.
ReloadAfter(h) ==
    /\ Ask(writes[h].of, Pending \ {h})
    /\ strayed' = (writes[h].of # wants)

Patch(h) ==
    /\ rows' = [rows EXCEPT
                  !.ver = IF rows.of = writes[h].of THEN Later(@, writes[h].ver) ELSE @,
                  !.early = @ \ {h}]
    /\ strayed' = (strayed \/ writes[h].of # wants)
    /\ UNCHANGED <<loading, loads, newest, raced, failed>>

Settle(h) ==
    /\ rows' = [rows EXCEPT !.early = @ \ {h}]
    /\ UNCHANGED <<loading, loads, newest, strayed, raced, failed>>

Confirm(h) ==
    /\ writes[h].phase = "applied"
    /\ own' = Later(own, writes[h].ver)
    /\ writes' = [writes EXCEPT ![h] = Idle]
    /\ \/ part.then \in {"reload", "always"} /\ ReloadAfter(h)
       \/ part.then = "patch" /\ Patch(h)
       \/ part.then = "none" /\ Settle(h)
    /\ UNCHANGED <<part, wants, held, version>>

PutBack(h) ==
    [rows EXCEPT !.ver = IF rows.of = writes[h].of THEN writes[h].before ELSE @,
                 !.early = @ \ {h}]

\* A refusal, or an answer that was lost.
Refuse(h) ==
    /\ h \in Pending
    /\ writes' = [writes EXCEPT ![h] = Idle]
    /\ \/ part.then = "always" /\ ReloadAfter(h)
       \/ /\ part.then # "always"
          /\ rows' = IF part.early = "undone" THEN PutBack(h) ELSE rows
          /\ UNCHANGED <<loading, loads, newest, strayed, raced, failed>>
    /\ UNCHANGED <<part, wants, held, version, own>>

-----------------------------------------------------------------------------
\* An entry of the cache reaches its TTL.
ExpireEntry(k) ==
    /\ held[k] # {}
    /\ held' = [held EXCEPT ![k] = {}]
    /\ UNCHANGED <<part, wants, rows, loading, loads, newest, version, writes,
                   own, strayed, raced, failed>>

OthersChange ==
    /\ version < MaxVersion
    /\ version' = version + 1
    /\ UNCHANGED <<part, wants, rows, loading, loads, newest, held, writes,
                   own, strayed, raced, failed>>

ScreenNext ==
    \/ \E k \in Keys : Turn(k) \/ ExpireEntry(k)
    \/ Refresh \/ OthersChange
    \/ \E s \in AllSlots : Serve(s) \/ Deliver(s) \/ FailLoad(s)
    \/ \E h \in Hands : Send(h) \/ Apply(h) \/ Confirm(h) \/ Refuse(h)

ScreenSpec == ScreenInit /\ [][ScreenNext]_screenVars

-----------------------------------------------------------------------------
Load == {Idle} \cup [phase : {"asked"}, of : Keys, open : BOOLEAN]
            \cup [phase : {"served"}, of : Keys, open : BOOLEAN, ver : Versions]
Write == {Idle} \cup [phase : {"sent"}, of : Keys, before : Versions]
            \cup [phase : {"applied"}, of : Keys, before : Versions, ver : Versions]

ScreenTypeOK ==
    /\ part \in Disciplines
    /\ wants \in Keys
    /\ rows \in [of : Keys, ver : Versions, early : SUBSET Hands]
    /\ loads \in [AllSlots -> Load]
    /\ newest = 0 \/ newest \in AllSlots
    /\ held \in [Keys -> SUBSET Versions]
    /\ version \in Versions /\ own \in Versions
    /\ writes \in [Hands -> Write]
    /\ loading \in BOOLEAN /\ strayed \in BOOLEAN
    /\ raced \in BOOLEAN /\ failed \in BOOLEAN

\* Where the loads have a guard, and when all answers are in, the rows are those
\* of the key the user turned to, in whatever order the answers came and from
\* whichever store; unless the newest load failed or a handler reloaded the key
\* it closed over.
RowsOfKey ==
    (Quiet /\ part.guard = "latest" /\ ~failed /\ ~strayed) => rows.of = wants

\* The spinner does not turn for a load that is gone: neither an answer that is
\* dropped, nor one that was joined, nor one from the cache leaves it behind.
LoadingEnds ==
    loading => \E s \in AllSlots : UnderWay(s) /\ (part.busy = "latest" => newest = s)

\* After the user's write is confirmed and the rows are read again, they are not
\* older than the write ("XOA SACH sau moi lenh ghi", api.js), provided the write
\* makes void what the screen reads, and no read overlapped it or the late answer
\* is dropped; and no write that was refused is still shown.
ReadsOwn == part.then # "none" /\ (part.voids \/ ~part.cached)
Reloads == part.then \in {"reload", "always"}
DropsLate == Reloads /\ part.guard = "latest" /\ ~part.cached /\ part.early = "no"

WriteShown ==
    (Quiet /\ ~failed /\ ~strayed /\ rows.of = wants /\ part.writes) =>
        /\ ((ReadsOwn /\ ~raced) \/ DropsLate) => rows.ver >= own
        /\ part.early # "kept" => rows.early = {}

\* The same of a screen that reads again, whatever its write makes void, which
\* is what the comment of api.js says of every write.
OwnWriteShown ==
    (Quiet /\ ~failed /\ ~strayed /\ ~raced /\ Reloads) => rows.ver >= own

=============================================================================
