------------------------------ MODULE MCArchives ------------------------------
(***************************************************************************)
(* Two archives whose entries are named by the clock: the preservation     *)
(* services and the registry of artifacts.  They share nothing but the     *)
(* clock, so that a behaviour is about one of them.                        *)
(*                                                                         *)
(* Two creators, one file, and three contents two of which have their      *)
(* first 4 KB in common.                                                   *)
(***************************************************************************)
EXTENDS PreservationStack, ArtifactRegistry, TLC

CONSTANTS c1, c2, song, intro, remix, other, head1, head2

MCCreators == {c1, c2}
MCFiles == {song}
MCContents == {intro, remix, other}
MCFileContents == {intro, other}
MCSampleOf == (intro :> head1) @@ (remix :> head1) @@ (other :> head2)
MCInitialContent == [f \in MCFiles |-> intro]
MCUploadRoutes == {"local", "mock"}
MCSymmetry == Permutations(MCCreators)

VARIABLE subject     \* the archive a behaviour is about

MCArchivesInit == /\ StackInit
                  /\ ArtifactInit
                  /\ subject \in {"wallets", "artifacts"}

MCArchivesNext ==
    \/ /\ subject = "wallets"
       /\ StackNext
       /\ UNCHANGED <<route, files, buildVars, registryVars, subject>>
    \/ /\ subject = "artifacts"
       /\ ArtifactNext
       /\ UNCHANGED <<walletVars, recoveryVars, calls, subject>>

MCArchivesSpec == MCArchivesInit /\ [][MCArchivesNext]_<<stackVars, artifactVars, subject>>
=============================================================================
