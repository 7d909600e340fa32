--------------------------- MODULE CorpusRegistry ---------------------------
(* The corpus releases a process has mounted: runtime/src/corpus-snapshot.ts and corpus-signature.ts *)
(* as operators. A bundle is a directory, a function from names to entries; a digest is what it is   *)
(* taken of, so two digests are equal exactly when the bytes are.                                    *)
EXTENDS Naturals, SequencesExt

CONSTANTS
    Formal,  \* the namespaces the grammar admits
    Absent     \* an option that was not given

Index == "_index.xml"
ManifestFile == "corpus.manifest.json"
SignatureFile == "signature.json"
Noise == ".DS_Store"
IndexStage == ".prime-bundle-index-stage"
IndexBackup == ".prime-bundle-index-backup"
ManifestStage == ".prime-bundle-manifest-stage"
ManifestBackup == ".prime-bundle-manifest-backup"
Ephemeral == {IndexStage, IndexBackup, ManifestStage, ManifestBackup}

Regular(bundle, name) == bundle.entries[name].kind = "file"
Bytes(bundle, name) == bundle.entries[name].bytes
Has(bundle, name) == name \in DOMAIN bundle.entries

\* The digest of a release covers every file but the manifest, the signature and what is not an artifact.
Hashed(bundle) == DOMAIN bundle.entries \ ({ManifestFile, SignatureFile, Noise} \cup Ephemeral)
ContentDigest(bundle) == [name \in Hashed(bundle) |-> Bytes(bundle, name)]
Unhashable(bundle) == \E name \in DOMAIN bundle.entries : ~Regular(bundle, name)

\* A manifest that parses and has its fields may still be of a version this runtime does not serve.
ManifestError(m) ==
    IF ~m.valid THEN "MANIFEST_INVALID"
    ELSE IF m.protocol # 2 THEN "PROTOCOL_VERSION_UNSUPPORTED"
    ELSE IF m.ir # 2 THEN "IR_VERSION_UNSUPPORTED"
    ELSE IF m.emitter # 4 THEN "EMITTER_VERSION_UNSUPPORTED"
    ELSE ""

\* A bundle from before manifests is identified by the bytes of its index.
LegacySnapshot(bundle) == [kind |-> "legacy", corpus |-> "legacy", release |-> Bytes(bundle, Index)]
SnapshotOf(bundle) ==
    IF ~Has(bundle, ManifestFile) THEN LegacySnapshot(bundle)
    ELSE LET m == Bytes(bundle, ManifestFile)
         IN [kind |-> "manifest", corpus |-> m.corpus, release |-> m.release, content |-> m.content]

DigestError(bundle, m, expected) ==
    IF ManifestError(m) # "" THEN ManifestError(m)
    ELSE IF expected \notin {Absent, m.schema} THEN "SCHEMA_DIGEST_MISMATCH"
    ELSE IF m.index # Bytes(bundle, Index) THEN "INDEX_DIGEST_MISMATCH"
    ELSE IF Unhashable(bundle) THEN "BUNDLE_CONTENT_INVALID"
    ELSE IF m.content # ContentDigest(bundle) THEN "CONTENT_DIGEST_MISMATCH"
    ELSE ""

\* loadCorpusSnapshot: the first check that fails, or the empty string.
LoadError(bundle, request) ==
    IF bundle.linked THEN "BUNDLE_CONTENT_INVALID"
    ELSE IF ~Has(bundle, Index) THEN "INDEX_MISSING"
    ELSE IF ~Regular(bundle, Index) THEN "BUNDLE_CONTENT_INVALID"
    ELSE IF Has(bundle, ManifestFile) THEN
        IF ~Regular(bundle, ManifestFile) THEN "BUNDLE_CONTENT_INVALID"
        ELSE DigestError(bundle, Bytes(bundle, ManifestFile), request.expected)
    ELSE IF request.requireManifest THEN "MANIFEST_MISSING"
    ELSE IF request.expected # Absent THEN "SCHEMA_DIGEST_MISMATCH"
    ELSE ""

\* verifyCorpusSignature: an attestation that is there is verified, required or not.
SignatureVerifies(bundle, required) ==
    IF ~Has(bundle, SignatureFile) THEN ~required
    ELSE /\ Regular(bundle, SignatureFile)
         /\ Has(bundle, ManifestFile)
         /\ Bytes(bundle, SignatureFile) = Bytes(bundle, ManifestFile)

\* mountCorpus: the declaration is consulted only when one is supplied, and the grammar of the
\* namespace only when the declaration is to be the source of it.
Namespace(request, snapshot, source) ==
    IF source = "declaration" /\ request.declared THEN request.namespace ELSE snapshot.corpus
MountError(bundle, request, source) ==
    IF LoadError(bundle, request) # "" THEN "MOUNT_LOAD_FAILED"
    ELSE IF request.declared /\ ~request.declarationLoads THEN "MOUNT_DECLARATION_INVALID"
    ELSE IF request.declared /\ ~SignatureVerifies(bundle, request.requireSignature) THEN "MOUNT_LOAD_FAILED"
    ELSE IF source = "declaration" /\ Namespace(request, SnapshotOf(bundle), source) \notin Formal
         THEN "MOUNT_NAMESPACE_INVALID"
    ELSE ""
MountOf(bundle, request, source) ==
    LET snapshot == SnapshotOf(bundle)
    IN [namespace |-> Namespace(request, snapshot, source), release |-> snapshot.release,
        path |-> request.path, snapshot |-> snapshot]
Key(mount) == <<mount.namespace, mount.release>>

-----------------------------------------------------------------------------
\* The registry: what is mounted by identity, the release a namespace resolves to, what failed to mount.
NoRegistry == [mounts |-> << >>, active |-> << >>, failed |-> << >>]

Add(registry, mount) ==
    IF Key(mount) \in DOMAIN registry.mounts
    THEN [registry EXCEPT !.failed = Append(@, "MOUNT_DUPLICATE")]
    ELSE [registry EXCEPT
             !.mounts = [k \in DOMAIN @ \cup {Key(mount)} |-> IF k = Key(mount) THEN mount ELSE @[k]],
             !.active = [n \in DOMAIN @ \cup {mount.namespace} |-> IF n \in DOMAIN @ THEN @[n] ELSE mount.release]]

MountInto(registry, bundle, request, source) ==
    IF MountError(bundle, request, source) = "" THEN Add(registry, MountOf(bundle, request, source))
    ELSE [registry EXCEPT !.failed = Append(@, MountError(bundle, request, source))]

\* CorpusRegistry.from: every request in turn, and none of them stops the rest.
From(requests, disk, source) ==
    LET after[i \in 0..Len(requests)] ==
            IF i = 0 THEN NoRegistry
            ELSE MountInto(after[i - 1], disk[requests[i].path], requests[i], source)
    IN after[Len(requests)]

ReleasesOf(registry, namespace) == {k[2] : k \in {key \in DOMAIN registry.mounts : key[1] = namespace}}
ActiveRelease(registry, namespace) ==
    IF namespace \in DOMAIN registry.active THEN registry.active[namespace] ELSE Absent
Resolve(registry, namespace, release) ==
    LET wanted == IF release = Absent THEN ActiveRelease(registry, namespace) ELSE release
    IN IF <<namespace, wanted>> \in DOMAIN registry.mounts THEN <<registry.mounts[<<namespace, wanted>>]>> ELSE << >>

CanActivate(registry, namespace, release) == <<namespace, release>> \in DOMAIN registry.mounts
Pointed(registry, namespace, release) ==
    [registry EXCEPT !.active = [n \in DOMAIN @ \cup {namespace} |-> IF n = namespace THEN release ELSE @[n]]]

Replaced(registry, mount) ==  \* mutant: the new bundle takes the place of what is mounted
    [Pointed(registry, mount.namespace, mount.release) EXCEPT
        !.mounts = [k \in DOMAIN @ \cup {Key(mount)} |-> IF k = Key(mount) THEN mount ELSE @[k]]]
\* swap: an identity that is already mounted is activated as it is, wherever the new bundle lies.
Swapped(registry, mount) ==
    Pointed(IF Key(mount) \in DOMAIN registry.mounts THEN registry ELSE Add(registry, mount),
            mount.namespace, mount.release)
=============================================================================
