----------------------------- MODULE ScreenKinds -----------------------------
(***************************************************************************)
(* How a screen of the front end reads and writes, in the terms that its   *)
(* correctness depends on.  The tables FinanceScreens, PortalScreens and   *)
(* OfficeScreens say it of every screen; Screens says what happens then.   *)
(***************************************************************************)
EXTENDS Naturals

Areas == {"contracts", "register", "portal", "mine", "rest"}

(***************************************************************************)
(* A load.                                                                 *)
(*   areas  the areas of the URLs it reads through apiFetch, that is       *)
(*          through the read cache; none when it calls fetch itself        *)
(*   keyed  it depends on a key the user turns: a month, a page, a row     *)
(*   again  a timer, a server event or a button asks again for the key     *)
(*   guard  "latest": an answer that is not of the newest load is dropped  *)
(*   fails  what an error does to the rows: "keeps" or "empties"           *)
(*   busy   which load ends the spinner: "each", the "latest", or there is *)
(*          none                                                           *)
(***************************************************************************)
Reading(areas, keyed, again, guard, fails, busy) ==
    [areas |-> areas, keyed |-> keyed, again |-> again, guard |-> guard,
     fails |-> fails, busy |-> busy]

(***************************************************************************)
(* A write.                                                                *)
(*   area   of its URL; "file" for the documents of a step under /portal,  *)
(*          "fetch" when the screen calls fetch itself                     *)
(*   once   the button is disabled until it is answered                    *)
(*   early  the rows show it at once: "undone" if it is refused, or "kept" *)
(*   then   on success: "reload", "patch" the rows, or "none"; "always" is *)
(*          a reload after an error too                                    *)
(***************************************************************************)
Writing(area, once, early, then) ==
    [area |-> area, once |-> once, early |-> early, then |-> then]

Silent == Writing("none", TRUE, "no", "none")     \* the load has no write

Uses(load, writes) == {<<load, w>> : w \in writes}

\* invalidateOnMutation: the areas a write removes from the read cache.
Voided(area) ==
    CASE area = "contracts" -> {"contracts"}
      [] area = "register" -> {"register"}
      [] area = "portal" -> {"portal", "mine"}
      [] area = "file" -> {"mine"}
      [] area \in {"fetch", "none"} -> {}
      [] area = "rest" -> Areas

(***************************************************************************)
(* A load and a write of its page, without what makes no difference: two   *)
(* pages with the same discipline behave alike.                            *)
(***************************************************************************)
Discipline(load, write) ==
    [cached |-> load.areas # {},
     voids |-> load.areas \subseteq Voided(write.area),
     writes |-> write.area # "none",
     keyed |-> load.keyed, again |-> load.again, guard |-> load.guard,
     fails |-> load.fails, busy |-> load.busy,
     once |-> write.once, early |-> write.early, then |-> write.then]

Disciplines ==
    [cached : BOOLEAN, voids : BOOLEAN, writes : BOOLEAN, keyed : BOOLEAN, again : BOOLEAN,
     guard : {"latest", "any"}, fails : {"keeps", "empties"},
     busy : {"each", "latest", "none"}, once : BOOLEAN,
     early : {"no", "undone", "kept"},
     then : {"reload", "always", "patch", "none"}]

=============================================================================
