----------------------------- MODULE ReadCache -----------------------------
(***************************************************************************)
(* The read cache of the front end (lib/api.js): answers remembered in the *)
(* memory of the tab and, for some paths, in localStorage (L2), which the  *)
(* tabs of the browser share; reads under way that later readers join; and *)
(* the refresh in the background of an answer that begins to be stale.     *)
(*                                                                         *)
(* Time is counted in units of the stale threshold.  An entry carries its  *)
(* age, which the code computes from the clock, and the real age of its    *)
(* body, which the code does not know: a body promoted from L2 is dated    *)
(* back by the threshold only.                                             *)
(***************************************************************************)
EXTENDS Naturals, FiniteSets

CONSTANTS
    Paths,        \* URLs that are read
    Area,         \* Area[p]: the prefix of the URL, as invalidateOnMutation sees it
    TTL,          \* TTL[p]: getCacheTTL, in units
    Threshold,    \* SWR_STALE_THRESHOLD_MS, in units
    Persisted,    \* paths setL2Cache stores
    Accounts,
    SignedOut,
    Requests,     \* requests under way at once (a bound)
    CacheScenes,  \* who reads and writes what in one behaviour (a bound)
    MaxChanges    \* changes of a path on the server (a bound)

Writable == {"contracts", "register", "portal", "portal-file", "other"}
Prefixes == {"contracts", "register", "portal", "me", "shortage", "other"}

ASSUME CacheAssumption ==
    /\ Area \in [Paths -> Prefixes]
    /\ TTL \in [Paths -> Nat]
    /\ Threshold \in Nat
    /\ Persisted \subseteq Paths
    /\ SignedOut \notin Accounts
    /\ CacheScenes \subseteq [paths : SUBSET Paths, accounts : SUBSET Accounts,
                          writes : SUBSET Writable, slots : SUBSET Requests,
                          top : 0..MaxChanges, shared : BOOLEAN]
    /\ 0 \notin Requests
    /\ MaxChanges \in Nat

VARIABLES
    cacheScene, \* the scene of this behaviour, which never changes
    served,     \* served[p]: what the server would answer now
    user,       \* the account signed in
    mem,        \* mem[p]: entry of readCache
    l2,         \* l2[p]: entry of localStorage
    flights,    \* requests of this tab
    joined,     \* joined[p]: the slot inFlight knows, 0 for none
    other,      \* other[p]: the body another tab is about to store in L2
    write,      \* the write under way
    seen,       \* history: versions the finished writes through apiFetch made
    overlapped, \* history: paths read while a write was under way
    strays,     \* history: paths that got a body of another account
    handed      \* the body this step gives to a caller, if any

cacheVars == <<cacheScene, served, user, mem, l2, flights, joined, other, write,
               seen, overlapped, strays, handed>>

-----------------------------------------------------------------------------
Absent == [kind |-> "none"]
Gone == [kind |-> "old"]        \* an expired entry still in the map
Kept(b, age, real) == [kind |-> "kept", v |-> b.v, u |-> b.u, age |-> age, real |-> real]
Stored(b, left, real) == [kind |-> "kept", v |-> b.v, u |-> b.u, left |-> left, real |-> real]
Nothing == [kind |-> "none"]
Given(p, e, real) == [kind |-> "given", p |-> p, v |-> e.v, u |-> e.u, real |-> real]

NoFlight == [phase |-> "idle"]
Flight(p, behind) == [phase |-> "sent", p |-> p, u |-> user, behind |-> behind]
NoWrite == [phase |-> "idle"]

CacheInit ==
    /\ served = [p \in Paths |-> 0]
    /\ cacheScene \in CacheScenes
    /\ user \in cacheScene.accounts
    /\ mem = [p \in Paths |-> Absent]
    /\ l2 = [p \in Paths |-> Absent]
    /\ flights = [s \in Requests |-> NoFlight]
    /\ joined = [p \in Paths |-> 0]
    /\ other = [p \in Paths |-> Absent]
    /\ write = NoWrite
    /\ seen = [p \in Paths |-> 0]
    /\ overlapped = {} /\ strays = {}
    /\ handed = Nothing

-----------------------------------------------------------------------------
FreeSlot(s) == flights[s].phase = "idle"
BeingRead(p) == \E s \in Requests : flights[s].phase # "idle" /\ flights[s].p = p

\* requestOnce: a read sent while a write is under way races with it.
SendRead(s, p, behind) ==
    /\ FreeSlot(s)
    /\ flights' = [flights EXCEPT ![s] = Flight(p, behind)]
    /\ overlapped' = IF write.phase # "idle" THEN overlapped \cup {p} ELSE overlapped

\* Broken: an entry of localStorage is as good as new.
PromotedNew(p) == Kept(l2[p], 0, l2[p].real)

Promoted(p) == Kept(l2[p], Threshold, l2[p].real)
Live(e, p) == e.kind = "kept" /\ e.age < TTL[p]
Readable(p) == l2[p].kind = "kept"

\* What apiFetch finds: the entry in memory, or else the one in L2, promoted.
Found(p) == IF mem[p].kind = "none" /\ Readable(p) THEN Promoted(p) ELSE mem[p]

\* A hit, answered at once; a stale one is refreshed behind the caller's back.
ReadHit(p) ==
    LET e == Found(p) IN
    /\ user # SignedOut /\ Live(e, p)
    /\ mem' = [mem EXCEPT ![p] = e]
    /\ handed' = Given(p, e, e.real)
    /\ IF e.age >= Threshold /\ joined[p] = 0
       THEN \E s \in cacheScene.slots : SendRead(s, p, TRUE)
       ELSE UNCHANGED <<flights, overlapped>>
    /\ UNCHANGED <<cacheScene, served, user, l2, joined, other, write, seen,
                   strays>>

\* A miss: ask the server; whoever reads meanwhile joins and adds nothing.
ReadMiss(p, s) ==
    LET e == Found(p) IN
    /\ user # SignedOut /\ ~Live(e, p)
    /\ joined[p] = 0
    /\ SendRead(s, p, FALSE)
    /\ mem' = [mem EXCEPT ![p] = IF e.kind = "kept" THEN Gone ELSE e]
    /\ joined' = [joined EXCEPT ![p] = s]
    /\ handed' = Nothing
    /\ UNCHANGED <<cacheScene, served, user, l2, other, write, seen, strays>>

\* peekApiCache: the memory if it is young enough, else L2 whatever the TTL.
Peek(p) ==
    /\ user # SignedOut
    /\ \/ /\ Live(mem[p], p)
          /\ handed' = Given(p, mem[p], mem[p].real)
          /\ UNCHANGED mem
       \/ /\ ~Live(mem[p], p) /\ Readable(p)
          /\ handed' = Given(p, l2[p], l2[p].real)
          /\ mem' = [mem EXCEPT ![p] = IF Threshold < TTL[p] THEN Promoted(p) ELSE Gone]
    /\ UNCHANGED <<cacheScene, served, user, l2, flights, joined, other, write,
                   seen, overlapped, strays>>

ServerAnswer(s) ==
    /\ flights[s].phase = "sent"
    /\ flights' = [flights EXCEPT ![s] = [phase |-> "answered", p |-> @.p,
                        behind |-> @.behind, u |-> @.u, v |-> served[@.p]]]
    /\ handed' = Nothing
    /\ UNCHANGED <<cacheScene, served, user, mem, l2, joined, other, write, seen,
                   overlapped, strays>>

\* The answer is remembered, cleared meanwhile or not, and given to the
\* readers who wait.  finally removes whatever inFlight holds for the path.
DeliverRead(s) ==
    LET f == flights[s]
        p == f.p
    IN  /\ f.phase = "answered"
        /\ mem' = [mem EXCEPT ![p] = IF TTL[p] > 0 THEN Kept(f, 0, 0) ELSE Gone]
        /\ l2' = IF p \in Persisted THEN [l2 EXCEPT ![p] = Stored(f, TTL[p], 0)] ELSE l2
        /\ joined' = IF f.behind THEN joined ELSE [joined EXCEPT ![p] = 0]
        /\ handed' = IF f.behind THEN Nothing ELSE Given(p, f, 0)
        /\ strays' = IF f.u # user THEN strays \cup {p} ELSE strays
        /\ flights' = [flights EXCEPT ![s] = NoFlight]
        /\ UNCHANGED <<cacheScene, served, user, other, write, seen, overlapped>>

\* Broken: without the finally, a failed read stays to be joined.
ReadFailsAndStays(s) ==
    /\ flights[s].phase # "idle"
    /\ flights' = [flights EXCEPT ![s] = NoFlight]
    /\ handed' = Nothing
    /\ UNCHANGED <<cacheScene, served, user, mem, l2, joined, other, write, seen,
                   overlapped, strays>>

ReadFails(s) ==
    /\ flights[s].phase # "idle"
    /\ joined' = IF flights[s].behind THEN joined ELSE [joined EXCEPT ![flights[s].p] = 0]
    /\ flights' = [flights EXCEPT ![s] = NoFlight]
    /\ handed' = Nothing
    /\ UNCHANGED <<cacheScene, served, user, mem, l2, other, write, seen, overlapped,
                   strays>>

-----------------------------------------------------------------------------
\* clearApiCache(scope): the three stores, for the paths in R.
Clear(R) ==
    /\ mem' = [p \in Paths |-> IF p \in R THEN Absent ELSE mem[p]]
    /\ l2' = [p \in Paths |-> IF p \in R THEN Absent ELSE l2[p]]
    /\ joined' = [p \in Paths |-> IF p \in R THEN 0 ELSE joined[p]]

\* invalidateOnMutation: the reads a write to an area makes void.
Invalidated(area) ==
    CASE area = "contracts" -> {p \in Paths : Area[p] = "contracts"}
      [] area = "register" -> {p \in Paths : Area[p] = "register"}
      [] area = "portal" -> {p \in Paths : Area[p] \in {"portal", "me", "shortage"}}
      [] area = "portal-file" -> {p \in Paths : Area[p] \in {"me", "shortage"}}
      [] OTHER -> Paths

\* Broken: the upload of a step's file clears nothing.
VoidButForFiles(area, raw) ==
    IF raw \/ area = "portal-file" THEN {} ELSE Invalidated(area)

\* apiFetch with a method other than GET clears before it sends; the screens
\* that call fetch themselves (raw) clear nothing.
Void(area, raw) == IF raw THEN {} ELSE Invalidated(area)

SendWrite(area, raw) ==
    LET R == Void(area, raw) IN
    /\ user # SignedOut /\ write.phase = "idle"
    /\ write' = [phase |-> "sent", area |-> area, raw |-> raw, made |-> {}]
    /\ Clear(R)
    /\ overlapped' = (overlapped \ R) \cup {p \in Paths : BeingRead(p) \/ other[p].kind # "none"}
    /\ handed' = Nothing
    /\ UNCHANGED <<cacheScene, served, user, flights, other, seen, strays>>

ServerApplies(C) ==
    /\ write.phase = "sent"
    /\ C # {} /\ C \subseteq Invalidated(write.area)
    /\ \A p \in C : served[p] < cacheScene.top
    /\ served' = [p \in Paths |-> IF p \in C THEN served[p] + 1 ELSE served[p]]
    /\ write' = [write EXCEPT !.phase = "applied", !.made = C]
    /\ handed' = Nothing
    /\ UNCHANGED <<cacheScene, user, mem, l2, flights, joined, other, seen, overlapped,
                   strays>>

\* The caller learns that the write is done.
DeliverWrite ==
    LET Made(h) == [p \in Paths |-> IF p \in write.made THEN served[p] ELSE h[p]] IN
    /\ write.phase = "applied"
    /\ seen' = IF write.raw THEN seen ELSE Made(seen)
    /\ write' = NoWrite
    /\ handed' = Nothing
    /\ UNCHANGED <<cacheScene, served, user, mem, l2, flights, joined, other,
                   overlapped, strays>>

FailWrite ==
    /\ write.phase # "idle"
    /\ write' = NoWrite
    /\ handed' = Nothing
    /\ UNCHANGED <<cacheScene, served, user, mem, l2, flights, joined, other, seen,
                   overlapped, strays>>

-----------------------------------------------------------------------------
\* Broken: the sign-out clears nothing.
LogoutOnly ==
    /\ user # SignedOut /\ write.phase = "idle"
    /\ user' = SignedOut
    /\ strays' = {}
    /\ handed' = Nothing
    /\ UNCHANGED <<cacheScene, served, mem, l2, flights, joined, other, write,
                   seen, overlapped>>

\* clearAccessToken and handleLogin.
Logout ==
    /\ user # SignedOut /\ write.phase = "idle"
    /\ user' = SignedOut
    /\ Clear(Paths)
    /\ strays' = {}
    /\ handed' = Nothing
    /\ UNCHANGED <<cacheScene, served, flights, other, write, seen, overlapped>>

Login(u) ==
    /\ user = SignedOut
    /\ user' = u
    /\ handed' = Nothing
    /\ UNCHANGED <<cacheScene, served, mem, l2, flights, joined, other, write,
                   seen, overlapped, strays>>

\* SetPassword, the page the link of an invitation opens anew, ends in handleLogin
\* as well, whoever is signed in: what localStorage holds of him stays.
LoginOver(u) ==
    /\ user \notin {SignedOut, u} /\ write.phase = "idle"
    /\ user' = u
    /\ mem' = [p \in Paths |-> Absent] /\ joined' = [p \in Paths |-> 0]
    /\ flights' = [s \in Requests |-> NoFlight]
    /\ strays' = strays \cup {p \in Paths : l2[p].kind = "kept"}
    /\ handed' = Nothing
    /\ UNCHANGED <<cacheScene, served, l2, other, write, seen, overlapped>>

\* Another tab of the browser reads and stores in the common L2, or clears it.
OtherTabReads(p, u) ==
    /\ cacheScene.shared /\ p \in Persisted /\ other[p].kind = "none"
    /\ other' = [other EXCEPT ![p] = [kind |-> "kept", v |-> served[p], u |-> u]]
    /\ overlapped' = IF write.phase # "idle" THEN overlapped \cup {p} ELSE overlapped
    /\ handed' = Nothing
    /\ UNCHANGED <<cacheScene, served, user, mem, l2, flights, joined, write, seen,
                   strays>>

OtherTabStores(p) ==
    /\ other[p].kind # "none"
    /\ l2' = [l2 EXCEPT ![p] = Stored(other[p], TTL[p], 0)]
    /\ other' = [other EXCEPT ![p] = Absent]
    /\ strays' = IF other[p].u # user THEN strays \cup {p} ELSE strays
    /\ handed' = Nothing
    /\ UNCHANGED <<cacheScene, served, user, mem, flights, joined, write, seen,
                   overlapped>>

OtherTabClears(p) ==
    /\ cacheScene.shared /\ Readable(p)
    /\ l2' = [l2 EXCEPT ![p] = Absent]
    /\ handed' = Nothing
    /\ UNCHANGED <<cacheScene, served, user, mem, flights, joined, other, write,
                   seen, overlapped, strays>>

\* Somebody else changes the data.
OthersWrite(p) ==
    /\ served[p] < cacheScene.top
    /\ served' = [served EXCEPT ![p] = @ + 1]
    /\ handed' = Nothing
    /\ UNCHANGED <<cacheScene, user, mem, l2, flights, joined, other, write, seen,
                   overlapped, strays>>

\* A unit of time passes; an answer is delivered within the unit it was made in.
Aged(e, p) ==
    IF e.kind # "kept" THEN e
    ELSE IF e.age + 1 < TTL[p] THEN Kept(e, e.age + 1, e.real + 1) ELSE Gone
Faded(e) ==
    IF e.kind # "kept" THEN e
    ELSE IF e.left > 0 THEN Stored(e, e.left - 1, e.real + 1) ELSE Absent

Tick ==
    /\ \A s \in Requests : flights[s].phase # "answered"
    /\ \A p \in Paths : other[p].kind = "none"
    /\ mem' = [p \in Paths |-> Aged(mem[p], p)]
    /\ l2' = [p \in Paths |-> Faded(l2[p])]
    /\ handed' = Nothing
    /\ UNCHANGED <<cacheScene, served, user, flights, joined, other, write, seen,
                   overlapped, strays>>

-----------------------------------------------------------------------------
CacheNext ==
    \/ \E p \in cacheScene.paths :
        \/ ReadHit(p) \/ Peek(p) \/ OtherTabStores(p) \/ OtherTabClears(p)
        \/ OthersWrite(p)
        \/ \E s \in cacheScene.slots : ReadMiss(p, s)
        \/ \E u \in cacheScene.accounts : OtherTabReads(p, u)
    \/ \E s \in cacheScene.slots : ServerAnswer(s) \/ DeliverRead(s) \/ ReadFails(s)
    \/ \E area \in cacheScene.writes, raw \in BOOLEAN : SendWrite(area, raw)
    \/ \E C \in SUBSET cacheScene.paths : ServerApplies(C)
    \/ DeliverWrite \/ FailWrite \/ Logout \/ Tick
    \/ \E u \in cacheScene.accounts : Login(u) \/ LoginOver(u)

CacheSpec == CacheInit /\ [][CacheNext]_cacheVars

-----------------------------------------------------------------------------
MemEntry == {Absent, Gone} \cup
    [kind : {"kept"}, v : 0..MaxChanges, u : Accounts, age : Nat, real : Nat]
L2Entry == {Absent} \cup
    [kind : {"kept"}, v : 0..MaxChanges, u : Accounts, left : Nat, real : Nat]
OtherBody == {Absent} \cup [kind : {"kept"}, v : 0..MaxChanges, u : Accounts]
ReadRequest == {NoFlight} \cup
    [phase : {"sent"}, p : Paths, u : Accounts, behind : BOOLEAN] \cup
    [phase : {"answered"}, p : Paths, u : Accounts, behind : BOOLEAN, v : 0..MaxChanges]
WriteRequest == {NoWrite} \cup
    [phase : {"sent", "applied"}, area : Writable, raw : BOOLEAN, made : SUBSET Paths]
GivenBody == {Nothing} \cup
    [kind : {"given"}, p : Paths, v : 0..MaxChanges, u : Accounts, real : Nat]

\* A path that inFlight knows has a request that somebody waits for.
CacheTypeOK ==
    /\ cacheScene \in CacheScenes
    /\ served \in [Paths -> 0..MaxChanges] /\ seen \in [Paths -> 0..MaxChanges]
    /\ user \in Accounts \cup {SignedOut}
    /\ mem \in [Paths -> MemEntry] /\ l2 \in [Paths -> L2Entry]
    /\ flights \in [Requests -> ReadRequest] /\ other \in [Paths -> OtherBody]
    /\ joined \in [Paths -> Requests \cup {0}]
    /\ write \in WriteRequest /\ handed \in GivenBody
    /\ overlapped \subseteq Paths /\ strays \subseteq Paths
    /\ \A p \in Paths : joined[p] # 0 => flights[joined[p]].phase # "idle"

\* How old a body a screen can be given: once the TTL for one that was read
\* in this tab, and once more, less the threshold, for one that was promoted
\* from localStorage at the end of its time there.
StaleBound ==
    handed.kind = "given" =>
        \/ handed.real <= TTL[handed.p]
        \/ handed.real + Threshold < 2 * TTL[handed.p]

\* "XOA SACH sau moi lenh ghi" (api.js): after a write through apiFetch is
\* done, no read of the paths it makes void shows the state before it, neither
\* from memory, nor from localStorage, nor by joining a read under way; unless
\* a read overlapped the write, whose answer may be remembered after the clear.
OwnApiWritesSeen ==
    (handed.kind = "given" /\ handed.p \notin overlapped) => handed.v >= seen[handed.p]

\* Nobody is shown what was read for the account signed in before, unless that
\* answer arrived after the sign-out, another tab put it in localStorage, or the
\* account accepted an invitation in a browser where somebody else was signed in.
SessionIsolation ==
    (handed.kind = "given" /\ handed.p \notin strays) => handed.u = user

=============================================================================
