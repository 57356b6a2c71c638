--------------------------- MODULE ArtifactRegistry ---------------------------
(***************************************************************************)
(* src/ipfs_verifier.cpp, put together by create_artifact_verifier: first  *)
(* IPFSVerifier, ArtifactAnalyzer and ProvenanceAttestationBuilder, which  *)
(* make the attestation of an audio or video artifact, then class          *)
(* ArtifactRegistry, which keeps them.                                     *)
(*                                                                         *)
(* The attestation of a file is made of three readings of it: one for the  *)
(* content hash, one for the upload, one for the perceptual hash; whoever  *)
(* owns the file may rewrite or remove it in between.  A content stands    *)
(* for its SHA-256, and SampleOf maps it to its first 4 KB, the only ones  *)
(* the perceptual hash is of.  Sizes, formats and metadata are left out,   *)
(* and so is the type beyond being supported at all.  A registry has no    *)
(* lock: its calls come one at a time.  The oracle's signature is a stub   *)
(* and the state is not saved.                                             *)
(***************************************************************************)
EXTENDS Clock, Tables

CONSTANTS Creators,           \* wallets, each of which builds one attestation at a time
          Files,              \* files with a known extension; others are refused
          Contents,           \* what may be attested
          FileContents,       \* those found in files
          Missing,            \* a file that is not there
          SampleOf,           \* content |-> its first 4 KB
          InitialContent,     \* file |-> content
          NoFile, NoDraft,
          UploadRoutes        \* the services of an IPFSConfig: "pinata", "local", "mock"

ASSUME BuilderAssumption ==
    /\ DOMAIN SampleOf = Contents
    /\ FileContents \subseteq Contents
    /\ Missing \notin Contents
    /\ InitialContent \in [Files -> FileContents]
    /\ UploadRoutes \subseteq {"pinata", "local", "mock"}

VARIABLES route,          \* config_ of the verifier, fixed when it is built
          files,
          place, reading, \* a creator's place, and the file it reads
          draft,          \* its ArtifactAttestation
          rewritten       \* history: the file changed since it was read first

buildVars == <<place, reading, draft, rewritten>>

BuilderInit ==
    /\ route \in UploadRoutes
    /\ files = InitialContent
    /\ place = [c \in Creators |-> "idle"]
    /\ reading = [c \in Creators |-> NoFile]
    /\ draft = [c \in Creators |-> NoDraft]
    /\ rewritten = [c \in Creators |-> FALSE]

\* The owner of a file rewrites or removes it.
RewriteFile(f, content) ==
    /\ files[f] # content
    /\ files' = [files EXCEPT ![f] = content]
    /\ rewritten' = [c \in Creators |-> rewritten[c] \/ reading[c] = f]
    /\ UNCHANGED <<route, place, reading, draft, now>>

-----------------------------------------------------------------------------
\* upload_to_ipfs.  The services are stubs that answer a constant; without
\* them the identifier is computed from the content.
Cid(content) == CASE route = "pinata" -> "QmPinataMockCID123456"
                  [] route = "local"  -> "QmHash123456789"
                  [] OTHER            -> content

\* Mutated form: the wallet is left out.
GenerateAttestationId_NoWallet(cid, wallet) == [cid |-> cid, wallet |-> "any", at |-> now]

\* Mutated form: the identifier of the content is left out.
GenerateAttestationId_NoCid(cid, wallet) == [cid |-> "any", wallet |-> wallet, at |-> now]

\* generate_attestation_id: a hash of the three.
GenerateAttestationId(cid, wallet) == [cid |-> cid, wallet |-> wallet, at |-> now]

Attestation(content, cid, sample, wallet) ==
    [content_hash |-> content, ipfs_cid |-> cid, perceptual_hash |-> sample,
     creator_wallet |-> wallet, attestation_id |-> GenerateAttestationId(cid, wallet)]

\* Mutated form: contents are remembered by path.
ReadFile_Remembered(f) == InitialContent[f]

\* read_file, and the ifstream of upload_to_ipfs.
ReadFile(f) == files[f]

-----------------------------------------------------------------------------
\* create_artifact_attestation(content, ...)
CreateFromContent(c, content) ==
    /\ place[c] = "idle"
    /\ place' = [place EXCEPT ![c] = "built"]
    /\ draft' = [draft EXCEPT ![c] =
                    Attestation(content, Cid(content), SampleOf[content], c)]
    /\ UNCHANGED <<route, files, reading, rewritten, now>>

\* create_artifact_attestation(file_path, ...): analyze_audio, analyze_video.
AnalyzeFile(c, f) ==
    /\ place[c] = "idle"
    /\ files[f] # Missing
    /\ place' = [place EXCEPT ![c] = "analyzed"]
    /\ reading' = [reading EXCEPT ![c] = f]
    /\ draft' = [draft EXCEPT ![c] = [content_hash |-> ReadFile(f)]]
    /\ rewritten' = [rewritten EXCEPT ![c] = FALSE]
    /\ UNCHANGED <<route, files, now>>

UploadFile(c) ==
    /\ place[c] = "analyzed"
    /\ files[reading[c]] # Missing
    /\ place' = [place EXCEPT ![c] = "uploaded"]
    /\ draft' = [draft EXCEPT ![c] = [content_hash |-> draft[c].content_hash,
                                      ipfs_cid |-> Cid(ReadFile(reading[c]))]]
    /\ UNCHANGED <<route, files, reading, rewritten, now>>

\* The perceptual hash, after which the attestation is put together.
SampleFile(c) ==
    /\ place[c] = "uploaded"
    /\ files[reading[c]] # Missing
    /\ place' = [place EXCEPT ![c] = "built"]
    /\ draft' = [draft EXCEPT ![c] =
                    Attestation(draft[c].content_hash, draft[c].ipfs_cid,
                                SampleOf[ReadFile(reading[c])], c)]
    /\ UNCHANGED <<route, files, reading, rewritten, now>>

\* A creator drops its attestation, or never gets one because the file
\* cannot be opened.
Leave(c) ==
    /\ place' = [place EXCEPT ![c] = "idle"]
    /\ reading' = [reading EXCEPT ![c] = NoFile]
    /\ draft' = [draft EXCEPT ![c] = NoDraft]
    /\ rewritten' = [rewritten EXCEPT ![c] = FALSE]

FailToOpen(c) ==
    /\ place[c] \in {"analyzed", "uploaded"}
    /\ files[reading[c]] = Missing
    /\ Leave(c)
    /\ UNCHANGED <<route, files, now>>

-----------------------------------------------------------------------------
\* class ArtifactRegistry.

VARIABLES attestations,          \* attestation_id |-> attestation
          perceptual_hashes,     \* perceptual hash |-> attestation_id
          registered             \* history: perceptual hash |-> attestation registered

registryVars == <<attestations, perceptual_hashes, registered>>
artifactVars == <<route, files, buildVars, registryVars, now>>

ArtifactInit ==
    /\ ClockInit
    /\ BuilderInit
    /\ attestations = EmptyTable
    /\ perceptual_hashes = EmptyTable
    /\ registered = EmptyTable

\* verify_artifact_uniqueness
VerifyArtifactUniqueness(sample) == sample \notin DOMAIN perceptual_hashes

\* register_artifact stores a copy and then makes the caller's own attestation
\* a verified and signed one, which nothing reads: a second registration of it
\* is refused as a duplicate.
RegisterArtifact(c) ==
    /\ place[c] = "built"
    /\ VerifyArtifactUniqueness(draft[c].perceptual_hash)
    /\ Leave(c)
    /\ attestations' = Put(attestations, draft[c].attestation_id, draft[c])
    /\ perceptual_hashes' = Put(perceptual_hashes, draft[c].perceptual_hash,
                                draft[c].attestation_id)
    /\ registered' = Put(registered, draft[c].perceptual_hash, draft[c])
    /\ UNCHANGED <<route, files, now>>

\* The caller gives up, refused as a duplicate or without having tried.
DropAttestation(c) ==
    /\ place[c] = "built"
    /\ Leave(c)
    /\ UNCHANGED <<route, files, registryVars, now>>

ArtifactNext ==
    \/ \E f \in Files : \E content \in FileContents \cup {Missing} :
          RewriteFile(f, content) /\ UNCHANGED registryVars
    \/ \E c \in Creators : \E content \in Contents :
          CreateFromContent(c, content) /\ UNCHANGED registryVars
    \/ \E c \in Creators : \E f \in Files : AnalyzeFile(c, f) /\ UNCHANGED registryVars
    \/ \E c \in Creators : /\ UploadFile(c) \/ SampleFile(c) \/ FailToOpen(c)
                           /\ UNCHANGED registryVars
    \/ \E c \in Creators : RegisterArtifact(c) \/ DropAttestation(c)
    \/ Tick /\ UNCHANGED <<route, files, buildVars, registryVars>>

ArtifactSpec == ArtifactInit /\ [][ArtifactNext]_artifactVars

-----------------------------------------------------------------------------
\* The three readings of a file are put into one attestation.  Unless the
\* file was rewritten meanwhile, hash, address and perceptual hash are all of
\* the content the file has.
AttestationOfOneContent ==
    \A c \in Creators : place[c] = "built" /\ reading[c] # NoFile /\ ~rewritten[c] =>
        /\ draft[c].content_hash = files[reading[c]]
        /\ draft[c].ipfs_cid = Cid(files[reading[c]])
        /\ draft[c].perceptual_hash = SampleOf[files[reading[c]]]

\* The entry found under a sample, through its identifier.
EntryOf(sample) == attestations[perceptual_hashes[sample]]

\* The address, computed from the content, and the sample fit the content hash.
OfOneContent(a) == a.ipfs_cid = a.content_hash /\ a.perceptual_hash = SampleOf[a.content_hash]

\* attestations_[id] = attestation replaces what is there.  The constant
\* addresses of the services leave only the wallet and the millisecond to tell
\* identifiers apart; with addresses computed from the content, an entry is
\* lost only if it, or the one that replaced it, mixes two versions of a file.
LostOnlyToServicesOrRewrites ==
    route = "mock" => \A s \in DOMAIN perceptual_hashes :
        OfOneContent(registered[s]) /\ OfOneContent(EntryOf(s)) => EntryOf(s) = registered[s]

-----------------------------------------------------------------------------
\* A claim is who registered a sample.
Owners == [s \in DOMAIN perceptual_hashes |-> EntryOf(s).creator_wallet]

Claims == INSTANCE ClaimRegistry WITH claims <- Owners

\* Whatever entries replace each other under one identifier, the registry
\* keeps every sample with the wallet that registered it first.
ImplementsClaims == Claims!ClaimSpec
=============================================================================
