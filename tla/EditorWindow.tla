---------------------------- MODULE EditorWindow ----------------------------
(***************************************************************************)
(* ShowSqlDatabaseEditor as the UI thread runs it: a frame deals with the  *)
(* logo and with the result pane in one go, and between two frames the     *)
(* queries, the downloads and the blocks of the main queue advance.        *)
(***************************************************************************)
EXTENDS ResultPane, LogoLoader

windowVars == <<consoleVars, paneVars, logoVars>>

WindowInit == PaneInit /\ LogoInit

Frame == LogoFrame /\ PaneFrame

QueryAdvances == ConsoleStep /\ UNCHANGED logoVars

LogoAdvances ==
    /\ \/ \E d \in Downloads : DownloadFails(d) \/ DownloadSucceeds(d)
       \/ RunBlock
    /\ UNCHANGED <<consoleVars, paneVars>>

WindowNext == Frame \/ QueryAdvances \/ LogoAdvances

(* The run loop of the main thread serves its queue. *)
WindowSpec ==
    /\ WindowInit
    /\ [][WindowNext]_windowVars
    /\ WF_windowVars(RunBlock /\ UNCHANGED <<consoleVars, paneVars>>)
=============================================================================
