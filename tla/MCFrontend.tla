----------------------------- MODULE MCFrontend -----------------------------
(***************************************************************************)
(* The parts of the front end beside one another.  They meet only in the   *)
(* calls each module models for itself, so a behaviour runs one of them,   *)
(* `running', and the others stay where they start.                        *)
(***************************************************************************)
EXTENDS BrowserSession, ReadCache, TemplateStudio, WorkflowDesigner, Screens, Forms,
        AppShell, FinanceScreens, PortalScreens, OfficeScreens, FormTable, TLC

CONSTANTS t1, t2, u1, u2,               \* tabs and accounts
          leads, me, pool,              \* URLs
          x, y, w1, w2,                 \* combos and templates
          A, B                          \* lines of a contract

\* The session: two tabs of one account; one tab where two sign in over a bad
\* network; tokens that grow old; passwords that change meanwhile; and two tabs
\* whose cookie changes hands.
MCSessionScenes ==
    {[tabs |-> {t1, t2}, users |-> {u1}, faults |-> {"reload"}],
     [tabs |-> {t1}, users |-> {u1, u2}, faults |-> {"network", "reload"}],
     [tabs |-> {t1}, users |-> {u1, u2}, faults |-> {"age"}],
     [tabs |-> {t1}, users |-> {u1}, faults |-> {"password", "age"}],
     [tabs |-> {t1, t2}, users |-> {u1, u2}, faults |-> {}]}

\* The studio: two loads that overtake or join one another; a save and the cache;
\* a template that is edited twice; another director; another tab; writes that
\* overlap; a clone into another combo.
StudioScene(cs, ts, ls, n, ps, rs, tabs) ==
    [combos |-> cs, rows |-> ts, loads |-> ls, edits |-> n, posts |-> ps, rivals |-> rs,
     tabs |-> tabs]
MCStarter == [nodes |-> {"s1", "s2"}, edges |-> {<<"s1", "s2">>}, start |-> "s1"]
OneStep == [nodes |-> {"s3"}, edges |-> {}, start |-> "s3"]
MCStudioScenes ==
    {StudioScene({x, y}, {w1}, {1, 2}, 0, {}, {}, FALSE),
     StudioScene({x}, {w1}, {1, 2}, 0, {"save"}, {}, FALSE),
     StudioScene({x}, {w1}, {1}, 2, {"save"}, {}, FALSE),
     StudioScene({x, y}, {w1}, {1}, 0, {"save"}, {OneStep}, FALSE),
     StudioScene({x}, {w1}, {1}, 0, {"save", "delete"}, {OneStep}, TRUE),
     StudioScene({x}, {w1, w2}, {1}, 0, {"save", "clone"}, {}, FALSE),
     StudioScene({x}, {w1, w2}, {1}, 0, {"clone", "delete"}, {}, FALSE),
     StudioScene({x, y}, {w1, w2}, {1}, 0, {"clone"}, {}, FALSE)}

\* Every discipline of the tables; where a guard drops late answers two loads
\* may be under way.
MCOpened == FinancePages \cup PortalPages \cup OfficePages
MCSlots == [latest |-> {1, 2}, any |-> {1}]

\* The shell: an employee, and a director whose workspace and permissions change.
Profile(u, d, e, may) == [user |-> u, director |-> d, employee |-> e, may |-> may]
MCProfiles ==
    {Profile(u1, FALSE, TRUE, {"survey_record"}), Profile(u2, TRUE, TRUE, {"contract"}),
     Profile(u2, TRUE, FALSE, {"contract", "finance"})}

VARIABLE running
frontVars ==
    <<running, sessionVars, cacheVars, studioVars, designerVars, screenVars, formVars,
      shellVars>>

\* The cache: two readers and a writer; another tab; another account; a file of
\* a step, which makes the tasks void; and writes that make everything void.
CacheScene(ps, us, ws, ss, top, shared) ==
    [paths |-> ps, accounts |-> us, writes |-> ws, slots |-> ss, top |-> top,
     shared |-> shared]
MCCacheScenes ==
    {CacheScene({leads}, {u1}, {"contracts"}, {1, 2}, 1, FALSE),
     CacheScene({leads}, {u1}, {"contracts"}, {1}, 1, TRUE),
     CacheScene({leads}, {u1, u2}, {}, {1}, 0, TRUE),
     CacheScene({me}, {u1}, {"portal-file", "contracts"}, {1}, 1, FALSE),
     CacheScene({pool}, {u1}, {"portal", "other"}, {1}, 1, FALSE)}
MCArea == (leads :> "contracts") @@ (me :> "me") @@ (pool :> "portal")
MCTTL == (leads :> 2) @@ (me :> 2) @@ (pool :> 2)

\* The designer: editing a running line; saves that overtake one another; another
\* director and the end of the line; two lines; a second drawing.
DesignerScene(ls, rs, ps, ops, os, is, n) ==
    [lines |-> ls, running |-> rs, places |-> ps, ops |-> ops, others |-> os,
     slots |-> is, drawings |-> n]
MCDesignerScenes ==
    {DesignerScene({A}, {A}, {A}, {"begin", "save", "activate"}, {}, {1}, 1),
     DesignerScene({A}, {}, {Away}, {"save"}, {}, {1, 2}, 1),
     DesignerScene({A}, {A}, {}, {"begin", "cancel"}, {"save", "activate", "end"}, {1}, 1),
     DesignerScene({A, B}, {A}, {A, B}, {"begin"}, {}, {1}, 1),
     DesignerScene({A}, {}, {Away}, {"save"}, {}, {1}, 2)}

-----------------------------------------------------------------------------
\* Where a part stays that does not run.
SessionRests == sessionScene = CHOOSE s \in SessionScenes : TRUE
CacheRests == cacheScene = CHOOSE s \in MCCacheScenes : s.accounts = {u1}
StudioRests ==
    /\ studioScene = StudioScene({x}, {w1}, {1}, 2, {"save"}, {}, FALSE)
    /\ stored[w1] = None /\ copies[x] = None
DesignerRests == designerScene = CHOOSE s \in MCDesignerScenes : TRUE
ScreenRests == part = CHOOSE p \in Parts : TRUE
FormRests == form = CHOOSE f \in Edited : TRUE
ShellRests == ~signedIn

MCInit ==
    /\ running \in {"session", "cache", "studio", "designer", "screen", "form", "shell"}
    /\ running # "session" => SessionRests
    /\ SessionInit
    /\ CacheInit /\ (running # "cache" => CacheRests)
    /\ StudioInit /\ (running # "studio" => StudioRests)
    /\ DesignerInit /\ (running # "designer" => DesignerRests)
    /\ ScreenInit /\ (running # "screen" => ScreenRests)
    /\ FormInit /\ (running # "form" => FormRests)
    /\ ShellInit /\ (running # "shell" => ShellRests)

MCNext ==
    \/ /\ running = "session" /\ SessionNext
       /\ UNCHANGED <<running, cacheVars, studioVars, designerVars,
                      screenVars, formVars, shellVars>>
    \/ /\ running = "cache" /\ CacheNext
       /\ UNCHANGED <<running, sessionVars, studioVars, designerVars,
                      screenVars, formVars, shellVars>>
    \/ /\ running = "studio" /\ StudioNext
       /\ UNCHANGED <<running, sessionVars, cacheVars, designerVars,
                      screenVars, formVars, shellVars>>
    \/ /\ running = "designer" /\ DesignerNext
       /\ UNCHANGED <<running, sessionVars, cacheVars, studioVars,
                      screenVars, formVars, shellVars>>
    \/ /\ running = "screen" /\ ScreenNext
       /\ UNCHANGED <<running, sessionVars, cacheVars, studioVars,
                      designerVars, formVars, shellVars>>
    \/ /\ running = "form" /\ FormNext
       /\ UNCHANGED <<running, sessionVars, cacheVars, studioVars,
                      designerVars, screenVars, shellVars>>
    \/ /\ running = "shell" /\ ShellNext
       /\ UNCHANGED <<running, sessionVars, cacheVars, studioVars,
                      designerVars, screenVars, formVars>>

MCSpec == MCInit /\ [][MCNext]_frontVars

-----------------------------------------------------------------------------
\* The types of the part that runs; the other properties are those of the parts,
\* and each module says what they are about.
TypeOK ==
    /\ running = "session" => SessionTypeOK
    /\ running = "cache" => CacheTypeOK
    /\ running = "studio" => StudioTypeOK
    /\ running = "designer" => DesignerTypeOK
    /\ running = "screen" => ScreenTypeOK
    /\ running = "form" => FormTypeOK
    /\ running = "shell" => ShellTypeOK

=============================================================================
