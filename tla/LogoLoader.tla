----------------------------- MODULE LogoLoader -----------------------------
(***************************************************************************)
(* The logo of the editor window (GetImTextureViaURL and its caller in     *)
(* DBManager.mm).  A frame that finds no logo starts a download, without   *)
(* asking whether one is already under way; a download that succeeds hands *)
(* a block to the main queue, which stores the texture between two frames. *)
(***************************************************************************)
EXTENDS Naturals, Sequences, SequencesExt

CONSTANTS
    Downloads,      \* identities of downloads and of the textures they make
    NoLogo          \* menuLogo == 0

ASSUME LogoAssumption == NoLogo \notin Downloads

VARIABLES
    menuLogo,       \* the texture on display, NoLogo before the first
    started,        \* downloads under way
    loaded,         \* textures made and retained
    mainQueue       \* blocks dispatched to the main queue, oldest first

logoVars == <<menuLogo, started, loaded, mainQueue>>

LogoInit ==
    /\ menuLogo = NoLogo
    /\ started = {}
    /\ loaded = {}
    /\ mainQueue = <<>>

(* GetImTextureViaURL: the output is cleared, a download is started. *)
GetImTextureViaURL ==
    /\ menuLogo' = NoLogo
    /\ \E d \in Downloads \ (started \cup loaded) : started' = started \cup {d}
    /\ UNCHANGED <<loaded, mainQueue>>

(* Mutant of WantLogo: the logo is fetched in every frame. *)
WantLogoAlways == TRUE

WantLogo == menuLogo = NoLogo

(* A frame: fetch the logo if there is none.  The bound on downloads: when *)
(* all are in use, a frame starts no other.                                *)
LogoFrame ==
    \/ WantLogo /\ GetImTextureViaURL
    \/ /\ ~WantLogo \/ Downloads = started \cup loaded
       /\ UNCHANGED logoVars

(* Mutant of DownloadFails: the error does not return from the handler.    *)
DownloadFailsOn(d) ==
    /\ d \in started
    /\ started' = started \ {d}
    /\ mainQueue' = Append(mainQueue, NoLogo)
    /\ UNCHANGED <<menuLogo, loaded>>

(* The completion handler: an error of any kind leaves nothing behind ...  *)
DownloadFails(d) ==
    /\ d \in started
    /\ started' = started \ {d}
    /\ UNCHANGED <<menuLogo, loaded, mainQueue>>

(* Mutant of Deliver: the texture is made but never handed over. *)
DeliverNot(d) == UNCHANGED mainQueue

(* Mutant of Deliver: the block is dispatched twice. *)
DeliverTwice(d) == mainQueue' = mainQueue \o <<d, d>>

Deliver(d) == mainQueue' = Append(mainQueue, d)

(* ... and success retains the texture and dispatches it to the main queue. *)
DownloadSucceeds(d) ==
    /\ d \in started
    /\ started' = started \ {d}
    /\ loaded' = loaded \cup {d}
    /\ Deliver(d)
    /\ UNCHANGED menuLogo

(* The main queue runs the oldest block. *)
RunBlock ==
    /\ mainQueue # <<>>
    /\ menuLogo' = Head(mainQueue)
    /\ mainQueue' = Tail(mainQueue)
    /\ UNCHANGED <<started, loaded>>

-----------------------------------------------------------------------------
LogoTypeOK ==
    /\ menuLogo \in Downloads \cup {NoLogo}
    /\ started \subseteq Downloads
    /\ loaded \subseteq Downloads
    /\ mainQueue \in Seq(Downloads)

(* No texture is stored that was not made, and none is delivered twice.    *)
TexturesReal ==
    /\ menuLogo # NoLogo => menuLogo \in loaded
    /\ ToSet(mainQueue) \subseteq loaded \ {menuLogo}
    /\ IsInjective(mainQueue)

(* Once shown, the logo does not disappear: a late download may replace    *)
(* it, and starting one never clears it.                                   *)
LogoStays == [][menuLogo # NoLogo => menuLogo' # NoLogo]_logoVars

(* A texture that has been made is eventually followed by a logo.          *)
LogoShown == loaded # {} ~> menuLogo # NoLogo
=============================================================================
