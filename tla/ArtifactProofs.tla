--------------------------- MODULE ArtifactProofs ---------------------------
(***************************************************************************)
(* Proofs about ArtifactRegistry and its builder, for any number of        *)
(* creators, files and contents: an attestation of a file left alone is of *)
(* one content, entries are lost only to constant addresses or rewritten   *)
(* files, and the registry implements ClaimRegistry.                       *)
(***************************************************************************)
EXTENDS ArtifactRegistry, TLAPS

\* A complete attestation; its identifier tells address and wallet.
IsAttestation(a) ==
    /\ a = [content_hash |-> a.content_hash, ipfs_cid |-> a.ipfs_cid,
            perceptual_hash |-> a.perceptual_hash, creator_wallet |-> a.creator_wallet,
            attestation_id |-> a.attestation_id]
    /\ a.attestation_id = [cid |-> a.ipfs_cid, wallet |-> a.creator_wallet,
                           at |-> a.attestation_id.at]

BuilderTypes ==
    /\ files = [f \in Files |-> files[f]]
    /\ place \in [Creators -> {"idle", "analyzed", "uploaded", "built"}]
    /\ reading \in [Creators -> Files \cup {NoFile}]
    /\ draft = [c \in Creators |-> draft[c]]
    /\ rewritten \in [Creators -> BOOLEAN]

\* What a creator knows of a file nobody rewrote, at each place.
DraftInv ==
    \A c \in Creators :
        /\ place[c] = "idle" => reading[c] = NoFile
        /\ place[c] \in {"analyzed", "uploaded"} => reading[c] \in Files
        /\ place[c] = "built" => IsAttestation(draft[c])
        /\ reading[c] # NoFile /\ ~rewritten[c] =>
              /\ place[c] # "idle" => draft[c].content_hash = files[reading[c]]
              /\ place[c] \in {"uploaded", "built"} => draft[c].ipfs_cid = Cid(files[reading[c]])
              /\ place[c] = "built" => draft[c].perceptual_hash = SampleOf[files[reading[c]]]

\* The registry finds under each sample the entry of the identifier that was
\* registered for it.
EntriesInv ==
    /\ \A id \in DOMAIN attestations : /\ IsAttestation(attestations[id])
                                       /\ attestations[id].attestation_id = id
    /\ DOMAIN registered = DOMAIN perceptual_hashes
    /\ \A s \in DOMAIN perceptual_hashes : /\ perceptual_hashes[s] \in DOMAIN attestations
                                           /\ IsAttestation(registered[s])
                                           /\ registered[s].attestation_id = perceptual_hashes[s]

\* The inductive invariant.
ArtifactInv == BuilderTypes /\ DraftInv /\ EntriesInv

LEMMA ArtifactInitInv == ArtifactInit => ArtifactInv
  <1> SUFFICES ASSUME ArtifactInit PROVE ArtifactInv
    OBVIOUS
  <1> USE DEF ArtifactInit, BuilderInit
  <1>1. BuilderTypes
    BY BuilderAssumption DEF BuilderTypes
  <1>2. DraftInv
    BY DEF DraftInv
  <1>3. EntriesInv
    BY DEF EntriesInv, EmptyTable
  <1> QED
    BY <1>1, <1>2, <1>3 DEF ArtifactInv

\* What Attestation makes is complete.
LEMMA AttestationIs ==
  ASSUME NEW content, NEW cid, NEW sample, NEW wallet
  PROVE  LET a == Attestation(content, cid, sample, wallet)
         IN  /\ IsAttestation(a)
             /\ a.content_hash = content
             /\ a.ipfs_cid = cid
             /\ a.perceptual_hash = sample
  BY DEF Attestation, GenerateAttestationId, IsAttestation

-----------------------------------------------------------------------------
\* The steps of the builder: the registry is left alone.
LEMMA RegistryUntouched ==
  ASSUME ArtifactInv, UNCHANGED registryVars
  PROVE  EntriesInv'
  BY DEF ArtifactInv, EntriesInv, registryVars, IsAttestation

LEMMA BuilderStepInv ==
  ASSUME ArtifactInv, NEW c \in Creators, UNCHANGED registryVars,
         \/ \E content \in Contents : CreateFromContent(c, content)
         \/ \E f \in Files : AnalyzeFile(c, f)
         \/ UploadFile(c) \/ SampleFile(c) \/ FailToOpen(c)
  PROVE  ArtifactInv'
  <1> USE DEF ArtifactInv
  <1>1. EntriesInv'
    BY RegistryUntouched
  <1>2. ASSUME NEW content \in Contents, CreateFromContent(c, content)
        PROVE  ArtifactInv'
    <2>1. BuilderTypes'
      BY <1>2 DEF CreateFromContent, BuilderTypes
    <2>2. DraftInv'
      BY <1>2, AttestationIs DEF CreateFromContent, BuilderTypes, DraftInv, Cid
    <2> QED
      BY <1>1, <2>1, <2>2
  <1>3. ASSUME NEW f \in Files, AnalyzeFile(c, f)
        PROVE  ArtifactInv'
    <2>1. BuilderTypes'
      BY <1>3 DEF AnalyzeFile, BuilderTypes
    <2>2. DraftInv'
      BY <1>3 DEF AnalyzeFile, BuilderTypes, DraftInv, ReadFile, Cid
    <2> QED
      BY <1>1, <2>1, <2>2
  <1>4. CASE UploadFile(c)
    <2>1. BuilderTypes'
      BY <1>4 DEF UploadFile, BuilderTypes
    <2>2. DraftInv'
      BY <1>4 DEF UploadFile, BuilderTypes, DraftInv, ReadFile, Cid
    <2> QED
      BY <1>1, <2>1, <2>2
  <1>5. CASE SampleFile(c)
    <2>1. BuilderTypes'
      BY <1>5 DEF SampleFile, BuilderTypes
    <2>2. DraftInv'
      BY <1>5, AttestationIs DEF SampleFile, BuilderTypes, DraftInv, ReadFile, Cid
    <2> QED
      BY <1>1, <2>1, <2>2
  <1>6. CASE FailToOpen(c)
    <2>1. BuilderTypes'
      BY <1>6 DEF FailToOpen, Leave, BuilderTypes
    <2>2. DraftInv'
      BY <1>6 DEF FailToOpen, Leave, BuilderTypes, DraftInv, Cid
    <2> QED
      BY <1>1, <2>1, <2>2
  <1> QED
    BY <1>2, <1>3, <1>4, <1>5, <1>6

\* Whoever is reading a file that is rewritten remembers it.
LEMMA RewriteInv ==
  ASSUME ArtifactInv, NEW f \in Files, NEW content, RewriteFile(f, content),
         UNCHANGED registryVars
  PROVE  ArtifactInv'
  <1> USE DEF ArtifactInv
  <1>1. EntriesInv'
    BY RegistryUntouched
  <1>2. BuilderTypes'
    BY DEF RewriteFile, BuilderTypes
  <1>3. DraftInv'
    <2> SUFFICES ASSUME NEW c \in Creators, reading[c] # NoFile, ~rewritten'[c]
                 PROVE  files'[reading[c]] = files[reading[c]] /\ ~rewritten[c]
      BY DEF RewriteFile, DraftInv, Cid, IsAttestation
    <2> QED
      BY DEF RewriteFile, BuilderTypes
  <1> QED
    BY <1>1, <1>2, <1>3

\* A creator leaves with its draft dropped.
LEMMA LeaveInv ==
  ASSUME ArtifactInv, NEW c \in Creators, Leave(c), UNCHANGED <<route, files>>
  PROVE  BuilderTypes' /\ DraftInv'
  <1>1. BuilderTypes'
    BY DEF ArtifactInv, Leave, BuilderTypes
  <1>2. DraftInv'
    BY DEF ArtifactInv, Leave, BuilderTypes, DraftInv, Cid
  <1> QED
    BY <1>1, <1>2

\* An attestation that replaces another has its identifier, and with it its
\* address and wallet.
LEMMA RegisterInv ==
  ASSUME ArtifactInv, NEW c \in Creators, RegisterArtifact(c)
  PROVE  ArtifactInv'
  <1>1. BuilderTypes' /\ DraftInv'
    BY LeaveInv DEF RegisterArtifact
  <1>2. IsAttestation(draft[c])
    BY DEF ArtifactInv, DraftInv, RegisterArtifact
  <1>3. EntriesInv'
    BY <1>2 DEF ArtifactInv, EntriesInv, RegisterArtifact, Put, IsAttestation
  <1> QED
    BY <1>1, <1>3 DEF ArtifactInv

LEMMA ArtifactStepInv ==
  ASSUME ArtifactInv, [ArtifactNext]_artifactVars
  PROVE  ArtifactInv'
  <1>1. ASSUME NEW c \in Creators, DropAttestation(c)
        PROVE  ArtifactInv'
    BY <1>1, LeaveInv, RegistryUntouched DEF DropAttestation, ArtifactInv
  <1>2. CASE UNCHANGED <<route, files, buildVars, registryVars>>
    BY <1>2, RegistryUntouched DEF ArtifactInv, BuilderTypes, DraftInv, buildVars, Cid,
       IsAttestation
  <1> QED
    BY <1>1, <1>2, RewriteInv, BuilderStepInv, RegisterInv DEF ArtifactNext, artifactVars

-----------------------------------------------------------------------------
\* Unless its file was rewritten between the readings, an attestation's hash,
\* address and perceptual hash are of the content the file has.
THEOREM AttestationsOfOneContent == ArtifactSpec => []AttestationOfOneContent
  <1>1. ArtifactInv => AttestationOfOneContent
    BY DEF ArtifactInv, DraftInv, AttestationOfOneContent
  <1> QED
    BY <1>1, ArtifactInitInv, ArtifactStepInv, PTL DEF ArtifactSpec

\* With addresses computed from the content, an entry is replaced only if it
\* or its successor mixes two versions of a file.
THEOREM EntriesLostOnlySo == ArtifactSpec => []LostOnlyToServicesOrRewrites
  <1>1. ArtifactInv => LostOnlyToServicesOrRewrites
    <2> SUFFICES ASSUME ArtifactInv, NEW s \in DOMAIN perceptual_hashes,
                        OfOneContent(registered[s]), OfOneContent(EntryOf(s))
                 PROVE  EntryOf(s) = registered[s]
      BY DEF LostOnlyToServicesOrRewrites
    <2> DEFINE a == EntryOf(s)
               b == registered[s]
    <2>1. /\ IsAttestation(a)
          /\ IsAttestation(b)
          /\ a.attestation_id = b.attestation_id
      BY DEF ArtifactInv, EntriesInv, EntryOf
    <2>2. OfOneContent(a) /\ OfOneContent(b)
      OBVIOUS
    <2> HIDE DEF a, b
    <2>3. a.ipfs_cid = b.ipfs_cid /\ a.creator_wallet = b.creator_wallet
      BY <2>1 DEF IsAttestation
    <2>4. a.content_hash = b.content_hash /\ a.perceptual_hash = b.perceptual_hash
      BY <2>2, <2>3 DEF OfOneContent
    <2>5. a = b
      BY <2>1, <2>3, <2>4 DEF IsAttestation
    <2> QED
      BY <2>5 DEF a, b
  <1> QED
    BY <1>1, ArtifactInitInv, ArtifactStepInv, PTL DEF ArtifactSpec

\* Registering a sample claims it, and no claim changes hands.
LEMMA RegisterClaims ==
  ASSUME ArtifactInv, NEW c \in Creators, RegisterArtifact(c)
  PROVE  Claims!Claim
  <1> DEFINE sample == draft[c].perceptual_hash
             id == draft[c].attestation_id
  <1>1. /\ sample \notin DOMAIN perceptual_hashes
        /\ attestations' = Put(attestations, id, draft[c])
        /\ perceptual_hashes' = Put(perceptual_hashes, sample, id)
    BY DEF RegisterArtifact, VerifyArtifactUniqueness
  <1>2. IsAttestation(draft[c])
    BY DEF ArtifactInv, DraftInv, RegisterArtifact
  <1>3. /\ DOMAIN Owners = DOMAIN perceptual_hashes
        /\ DOMAIN Owners' = DOMAIN perceptual_hashes'
        /\ DOMAIN perceptual_hashes' = DOMAIN perceptual_hashes \cup {sample}
    BY <1>1 DEF Owners, Put
  <1>4. ASSUME NEW s \in DOMAIN Owners
        PROVE  Owners'[s] = Owners[s]
    <2>1. s \in DOMAIN perceptual_hashes /\ s # sample
      BY <1>1, <1>3
    <2>2. /\ perceptual_hashes[s] \in DOMAIN attestations
          /\ IsAttestation(EntryOf(s))
          /\ EntryOf(s).attestation_id = perceptual_hashes[s]
      BY <2>1 DEF ArtifactInv, EntriesInv, EntryOf
    <2>3. perceptual_hashes'[s] = perceptual_hashes[s]
      BY <1>1, <2>1 DEF Put
    <2>4. CASE perceptual_hashes[s] = id
      <3>1. EntryOf(s)' = draft[c]
        BY <1>1, <2>3, <2>4 DEF EntryOf, Put
      <3>2. draft[c].creator_wallet = EntryOf(s).creator_wallet
        BY <1>2, <2>2, <2>4 DEF IsAttestation
      <3> QED
        BY <1>3, <2>1, <3>1, <3>2 DEF Owners
    <2>5. CASE perceptual_hashes[s] # id
      <3>1. EntryOf(s)' = EntryOf(s)
        BY <1>1, <2>2, <2>3, <2>5 DEF EntryOf, Put
      <3> QED
        BY <1>3, <2>1, <3>1 DEF Owners
    <2> QED
      BY <2>4, <2>5
  <1> QED
    BY <1>1, <1>3, <1>4 DEF Claims!Claim

\* The registry implements the abstract one: the first to register a sample
\* owns it for good, whatever entries replace each other.
THEOREM RegistryImplementsClaims == ArtifactSpec => ImplementsClaims
  <1>1. ArtifactInit => Claims!ClaimInit
    BY DEF ArtifactInit, EmptyTable, Owners, Claims!ClaimInit
  <1>2. ArtifactInv /\ [ArtifactNext]_artifactVars => [Claims!Claim]_Owners
    <2> SUFFICES ASSUME ArtifactInv, [ArtifactNext]_artifactVars
                 PROVE  [Claims!Claim]_Owners
      OBVIOUS
    <2>1. UNCHANGED registryVars => UNCHANGED Owners
      BY DEF registryVars, Owners, EntryOf
    <2>2. \/ UNCHANGED registryVars
          \/ \E c \in Creators : RegisterArtifact(c)
      BY DEF ArtifactNext, DropAttestation, artifactVars
    <2> QED
      BY <2>1, <2>2, RegisterClaims
  <1> QED
    BY <1>1, <1>2, ArtifactInitInv, ArtifactStepInv, PTL
       DEF ArtifactSpec, ImplementsClaims, Claims!ClaimSpec
=============================================================================
