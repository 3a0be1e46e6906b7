---------------------------- MODULE KernelPackages ----------------------------
(***************************************************************************)
(* How a kernel is found, checked and kept (updates/): the release, its     *)
(* manifest and its package are read one after the other, while GitHub may  *)
(* get other files under the same tag, and one field of what is offered may *)
(* be wrong.  A full package's own kernel takes the other path.  What was   *)
(* kept is read again by the checks of updates/storage.rs.                  *)
(***************************************************************************)
EXTENDS Integers, SequencesExt

CONSTANTS
  Nothing,         \* an Option that is None
  Tags,            \* tags of releases, each a sequence of parts
  MaxReplacements  \* bound on the times GitHub gets other files

AnswersNames == "config_static_cname_response_v1"
Capabilities == {"config_query_stats_v1", AnswersNames, "malformed"}

Option(S) == S \union {Nothing}
\* Commits: a value, and whether it is written with upper-case letters.
Commits == [id : Int, upper : BOOLEAN]
\* RemoteVersion and VersionManifest.
Versions ==
  [source : {"fork"}, id : Int, commit : Commits, tag : Tags, upstream : Option(Commits),
   digest : Int, caps : Seq(Capabilities)]
Manifests ==
  [source : {"fork", "action"}, id : Option(Int), commit : Commits, run : Option(Int),
   tag : Option(Tags), digest : Option(Int), upstream : Option(Commits),
   patchset : Option(Int), protocol : Option(Int), caps : Seq(Capabilities), binary : Int]

\* Nothing is none of the values an Option has.
ASSUME PackageAssumption ==
  /\ MaxReplacements \in Nat
  /\ Nothing \notin Int /\ Nothing \notin Commits /\ Nothing \notin Tags
  /\ Nothing \notin Versions /\ Nothing \notin Manifests

VARIABLES
  offer,     \* what GitHub holds, or a full package brought
  seen,      \* the release as it was read
  found,     \* the RemoteVersion checked, Nothing before
  archive,   \* the package downloaded
  kept,      \* the manifest stored with its binary, Nothing before
  config,    \* whether the configuration answers with names
  stage, replacements,
  excuse     \* whether something was wrong, replaced, cut off or not supported

packageVars == <<offer, seen, found, archive, kept, config, stage, replacements, excuse>>

---------------------------------------------------------------------------
(* Names, versions and capabilities.                                       *)

\* A commit is its value and the case it is written in.
Commit(id, upper) == [id |-> id, upper |-> upper]
ValidCommit(c) == c.id # 0
LowerCase(c) == IF c = Nothing THEN c ELSE [c EXCEPT !.upper = FALSE]
SameCommit(c, d) == IF Nothing \in {c, d} THEN c = d ELSE c.id = d.id

\* A version's parts are numbers and the digits they are written with; Nothing when invalid.
ParsedVersion(tag) ==
  IF /\ Len(tag) \in {3, 4}
     /\ tag[1].width = 4 /\ tag[2].width = 2 /\ tag[3].width = 2
     /\ tag[2].number \in 1 .. 12 /\ tag[3].number \in 1 .. 31
     /\ Len(tag) = 4 => /\ tag[4].number >= 2 /\ tag[4].width \in 1 .. 9
                        /\ tag[4].number >= 10 ^ (tag[4].width - 1)
  THEN [i \in 1 .. 4 |-> IF i <= Len(tag) THEN tag[i].number ELSE 1]
  ELSE Nothing

Newer(v, w) == \E i \in 1 .. 4 : v[i] > w[i] /\ \A j \in 1 .. i - 1 : v[j] = w[j]

ValidCapabilities(caps) == IsInjective(caps) /\ "malformed" \notin Range(caps)
\* ensure_config_supported.
Supports(caps, content) == content = "cname" => AnswersNames \in Range(caps)
\* canonical_runtime_capabilities: sorted, stats_top_v1 under its new name, no others.
Canonical(reported) ==
  LET Known(c, names) == IF reported \intersect names = {} THEN <<>> ELSE <<c>>
  IN Known("config_query_stats_v1", {"config_query_stats_v1", "stats_top_v1"})
       \o Known(AnswersNames, {AnswersNames})

---------------------------------------------------------------------------
(* Keys, manifests and the checks when they are stored and read.           *)

Key(source, id, commit) == [source |-> source, id |-> id, commit |-> LowerCase(commit)]
Encoded(key) ==
  IF key.id = Nothing THEN <<key.source, key.commit>> ELSE <<key.source, key.id, key.commit>>
Parsed(text) ==
  CASE Len(text) = 1 -> Key("action", Nothing, text[1])
    [] Len(text) = 2 -> Key(text[1], Nothing, text[2])
    [] OTHER -> Key(text[1], text[2], text[3])
KeyOf(m) == Key(m.source, m.id, m.commit)

\* validate_manifest_source of the current format.
SourceIsWhole(m) ==
  \/ m.id = Nothing /\ m.run = Nothing /\ m.tag = Nothing
  \/ m.source = "action" /\ m.id # Nothing /\ m.run # Nothing /\ m.tag = Nothing
  \/ m.source = "fork" /\ m.id # Nothing /\ m.run = Nothing /\ m.tag # Nothing
     /\ ParsedVersion(m.tag) # Nothing

\* validate_manifest_build_identity.
IdentityIsWhole(m) ==
  /\ m.upstream # Nothing => ValidCommit(m.upstream)
  /\ IF m.source = "fork" THEN m.patchset = Nothing /\ m.protocol = 1
     ELSE \/ Nothing = m.upstream /\ Nothing = m.patchset /\ Nothing = m.protocol
          \/ m.upstream # Nothing /\ m.patchset \notin {Nothing, 0} /\ m.protocol = 1

\* store_version: what it refuses.
Storable(m, binary) ==
  /\ ValidCommit(m.commit) /\ m.digest # 0
  /\ SourceIsWhole(m) /\ IdentityIsWhole(m) /\ ValidCapabilities(m.caps)
  /\ binary.elf /\ m.binary = binary.digest

\* load_verified_version: the manifest in the key's directory, or Nothing.
Loaded(key) ==
  IF /\ kept # Nothing
     /\ SameCommit(kept.commit, key.commit) /\ kept.source = key.source
     /\ key.id # Nothing => kept.id = key.id
     /\ kept.digest # 0 /\ SourceIsWhole(kept) /\ IdentityIsWhole(kept)
     /\ ValidCapabilities(kept.caps)
  THEN kept ELSE Nothing

\* to_kixdns_update_notice.
NoticeAvailable(remote, active, current) ==
  \/ active.source # "fork"
  \/ LET installed == IF current = Nothing THEN Nothing ELSE ParsedVersion(current.tag)
     IN IF installed # Nothing THEN Newer(ParsedVersion(remote.tag), installed)
        ELSE ~SameCommit(active.commit, remote.commit) \/ active.id # remote.id

---------------------------------------------------------------------------
(* What is offered.                                                        *)

\* A release as the kernel repository publishes it, its manifest (m...) and its package.
Release(tag, content, upstream, upper, caps, recorded) ==
  [kind |-> "release", final |-> TRUE, tag |-> tag, listed |-> {"manifest", "package"},
   assetId |-> content, assetSize |-> 1, assetDigest |-> IF recorded THEN content ELSE Nothing,
   mSchema |-> 1, mRepository |-> "fork", mVersion |-> tag, mCommit |-> Commit(content, upper),
   mUpstream |-> upstream, mProtocol |-> 1, mCaps |-> caps, mArch |-> TRUE, mName |-> tag,
   mDigest |-> content, mSize |-> 1,
   bytes |-> content, entries |-> TRUE, sums |-> TRUE, sSchema |-> 1, sRepository |-> "fork",
   sVersion |-> tag, sCommit |-> Commit(content, FALSE), sUpstream |-> LowerCase(upstream),
   sArch |-> TRUE, sProtocol |-> 1, pCaps |-> caps, elf |-> TRUE]

\* What a full package brought beside the kernel in place; two identities, one per age.
Bundled(source, tag, upstream, upper, caps) ==
  [kind |-> "bundled", source |-> source, envId |-> 1, envCommit |-> Commit(1, FALSE),
   bCommit |-> Commit(1, upper), bId |-> 1, bName |-> tag, bDigest |-> 1, bBinary |-> 1,
   bCaps |-> caps, bRun |-> 7, binary |-> 1, elf |-> TRUE,
   sSchema |-> 1, sRepository |-> "fork", sVersion |-> tag, sCommit |-> Commit(1, FALSE),
   sUpstream |-> upstream, sArch |-> TRUE, sProtocol |-> 1,
   lSource |-> "action", lRepository |-> "upstream", lRun |-> 8, lPatchset |-> 1,
   lRevision |-> Nothing]

\* Another value a field may have by mistake; 0 is malformed, or none.
Others(field, o) ==
  CASE field \in {"mCommit", "sCommit", "bCommit", "envCommit"} ->
         {Commit(0, FALSE), Commit(9, FALSE)}
    [] field \in {"mUpstream", "sUpstream"} ->
         {Commit(0, FALSE), Commit(9, FALSE), Nothing} \ {o[field]}
    [] field \in {"tag", "mVersion", "mName", "sVersion", "bName"} -> Tags \ {o[field]}
    [] field \in {"mCaps", "pCaps", "bCaps"} ->
         {<<"malformed">>, <<AnswersNames, AnswersNames>>, <<>>} \ {o[field]}
    [] field = "listed" -> {{"manifest"}, {"package"}}
    [] field \in {"mRepository", "sRepository", "lSource", "lRepository"} -> {"other"}
    [] field \in {"bytes", "binary"} -> {9}
    [] field = "envId" -> {0, 9, Nothing}
    [] field \in {"final", "mArch", "entries", "sums", "sArch", "elf"} -> {FALSE}
    [] OTHER -> {0, 9}

Sound ==
  LET capsOf == {<<>>, <<AnswersNames>>}
      upstreams == {Nothing, Commit(5, FALSE), Commit(5, TRUE)}
      tags == {t \in Tags : ParsedVersion(t) # Nothing}
  IN {Release(t, 1, u, c, caps, d) :
        t \in tags, u \in upstreams, c \in BOOLEAN, caps \in capsOf, d \in BOOLEAN}
     \union {Bundled(s, t, Commit(5, FALSE), c, caps) :
               s \in {"fork", "action"}, t \in tags, c \in BOOLEAN, caps \in capsOf}

CapsOf(o) == IF o.kind = "release" THEN o.pCaps ELSE o.bCaps

PackagesInit ==
  /\ \E o \in Sound :
       \/ offer = o /\ config \in {"plain", "cname"} /\ excuse = ~Supports(CapsOf(o), config)
       \/ /\ \E field \in DOMAIN o \ {"kind", "source"} : \E v \in Others(field, o) :
               offer = [o EXCEPT ![field] = v]
          /\ config = "plain" /\ excuse = TRUE
  /\ seen = Nothing /\ found = Nothing /\ archive = Nothing /\ kept = Nothing
  /\ stage = "start" /\ replacements = 0

Refuse == stage' = "refused"

---------------------------------------------------------------------------
(* A release.                                                              *)

\* fetch_latest reads the release ...
ReadRelease ==
  /\ stage = "start" /\ offer.kind = "release"
  /\ IF ParsedVersion(offer.tag) # Nothing /\ "manifest" \in offer.listed
     THEN seen' = offer /\ stage' = "release" ELSE Refuse /\ UNCHANGED seen
  /\ UNCHANGED <<offer, found, archive, kept, config, replacements, excuse>>

\* remote_version.
RemoteVersion(r, m) ==
  IF /\ r.final /\ ParsedVersion(r.tag) # Nothing
     /\ m.mSchema = 1 /\ m.mRepository = "fork" /\ m.mVersion = r.tag
     /\ ValidCommit(m.mCommit) /\ (m.mUpstream # Nothing => ValidCommit(m.mUpstream))
     /\ m.mProtocol = 1 /\ ValidCapabilities(m.mCaps)
     /\ m.mArch /\ m.mName = r.tag /\ m.mDigest # 0 /\ m.mSize # 0
     /\ "package" \in r.listed /\ r.assetId # 0 /\ r.assetSize = m.mSize
     /\ r.assetDigest \in {Nothing, m.mDigest}
  THEN [source |-> "fork", id |-> r.assetId, commit |-> LowerCase(m.mCommit), tag |-> r.tag,
        upstream |-> LowerCase(m.mUpstream), digest |-> m.mDigest, caps |-> m.mCaps]
  ELSE Nothing

\* ... and then its manifest.
ReadManifest ==
  /\ stage = "release"
  /\ found' = RemoteVersion(seen, offer)
  /\ IF found' # Nothing THEN stage' = "resolved" ELSE Refuse
  /\ UNCHANGED <<offer, seen, archive, kept, config, replacements, excuse>>

\* download_verified, once the configuration is known to be supported.
DownloadPackage ==
  /\ stage = "resolved"
  /\ IF Supports(found.caps, config) /\ offer.bytes = found.digest
     THEN archive' = offer /\ stage' = "downloaded" ELSE Refuse /\ UNCHANGED archive
  /\ UNCHANGED <<offer, seen, found, kept, config, replacements, excuse>>

\* The network fails, or takes too long.
NetworkFails ==
  /\ stage \in {"start", "release", "resolved"} /\ offer.kind = "release"
  /\ Refuse /\ excuse' = TRUE
  /\ UNCHANGED <<offer, seen, found, archive, kept, config, replacements>>

\* extract_artifact: the entries, their checksums, the two descriptions.
Extracts(a) == a.entries /\ a.sums /\ a.sSchema = 1 /\ ValidCapabilities(a.pCaps)

\* Mutant: the upstream commit is not compared.
VerifyLess(a, tag, commit, upstream) ==
  /\ a.sRepository = "fork" /\ a.sVersion = tag /\ SameCommit(a.sCommit, commit)
  /\ a.sArch /\ a.sProtocol = 1

\* verify_kernel_source.
VerifySource(a, tag, commit, upstream) ==
  /\ a.sRepository = "fork" /\ a.sVersion = tag /\ SameCommit(a.sCommit, commit)
  /\ SameCommit(a.sUpstream, upstream)
  /\ a.sArch /\ a.sProtocol = 1

\* install_resolved: check the package against what was found and store it.
UnpackPackage ==
  /\ stage = "downloaded"
  /\ LET manifest == [source |-> "fork", id |-> found.id, commit |-> found.commit,
                      run |-> Nothing, tag |-> found.tag, digest |-> found.digest,
                      upstream |-> found.upstream, patchset |-> Nothing, protocol |-> 1,
                      caps |-> archive.pCaps, binary |-> archive.bytes]
         binary == [digest |-> archive.bytes, elf |-> archive.elf]
     IN IF /\ Extracts(archive)
           /\ VerifySource(archive, found.tag, found.commit, found.upstream)
           /\ archive.pCaps = found.caps /\ Supports(archive.pCaps, config)
           /\ Storable(manifest, binary)
        THEN kept' = manifest /\ stage' = "kept" ELSE Refuse /\ UNCHANGED kept
  /\ UNCHANGED <<offer, seen, found, archive, config, replacements, excuse>>

\* The release gets other files under the same tag.
ReplaceFiles ==
  /\ stage \in {"release", "resolved"} /\ replacements < MaxReplacements
  /\ offer' = Release(offer.tag, 2, offer.mUpstream, FALSE, offer.mCaps,
                      offer.assetDigest # Nothing)
  /\ replacements' = replacements + 1 /\ excuse' = TRUE
  /\ UNCHANGED <<seen, found, archive, kept, config, stage>>

---------------------------------------------------------------------------
(* The kernel a full package brought.                                      *)

\* read_bundled_package.
BundledPackage(o) ==
  /\ ValidCommit(o.bCommit) /\ SameCommit(o.bCommit, o.envCommit) /\ o.bId = o.envId
  /\ 0 \notin {o.bId, o.bDigest, o.bBinary} /\ o.bBinary = o.binary
  /\ ValidCapabilities(o.bCaps) /\ o.elf

\* load_bundled_release.
BundledRelease(o) ==
  /\ o.sSchema = 1 /\ ParsedVersion(o.sVersion) # Nothing
  /\ o.sUpstream # Nothing => ValidCommit(o.sUpstream)
  /\ VerifySource(o, o.sVersion, o.bCommit, o.sUpstream) /\ o.bName = o.sVersion

\* validate_build_identity, load_bundled_action.
BundledAction(o) ==
  /\ o.bRun > 0 /\ o.lRepository = "upstream" /\ o.sUpstream # Nothing
  /\ ValidCommit(o.sUpstream) /\ 0 \notin {o.lPatchset, o.lRevision, o.lRun}
  /\ o.sProtocol = 1 /\ o.lSource = "action"

BundledManifest(o) ==
  LET fork == o.source = "fork"
  IN [source |-> o.source, id |-> o.bId, digest |-> o.bDigest, protocol |-> 1,
      commit |-> IF fork THEN LowerCase(o.bCommit) ELSE o.bCommit,
      run |-> IF fork THEN Nothing ELSE o.lRun, tag |-> IF fork THEN o.sVersion ELSE Nothing,
      upstream |-> IF fork THEN LowerCase(o.sUpstream) ELSE o.sUpstream,
      patchset |-> IF fork THEN Nothing ELSE o.lPatchset,
      caps |-> o.bCaps, binary |-> o.binary]

\* A kernel of which only the commit is known.
TracklessManifest(o) ==
  [source |-> o.source, id |-> Nothing, commit |-> LowerCase(o.envCommit), run |-> Nothing,
   tag |-> Nothing, digest |-> Nothing, upstream |-> Nothing, patchset |-> Nothing,
   protocol |-> Nothing, caps |-> <<>>, binary |-> o.binary]

\* initial_version_key and adopt_active_version.
AdoptBundled ==
  /\ stage = "start" /\ offer.kind = "bundled"
  /\ LET manifest == IF offer.envId = Nothing THEN TracklessManifest(offer)
                     ELSE BundledManifest(offer)
         binary == [digest |-> offer.binary, elf |-> offer.elf]
     IN IF /\ ValidCommit(offer.envCommit) /\ offer.envId # 0
           /\ \/ offer.envId = Nothing
              \/ BundledPackage(offer) /\ IF offer.source = "fork" THEN BundledRelease(offer)
                                          ELSE BundledAction(offer)
           /\ Storable(manifest, binary)
        THEN kept' = manifest /\ stage' = "kept" ELSE Refuse /\ UNCHANGED kept
  /\ UNCHANGED <<offer, seen, found, archive, config, replacements, excuse>>

---------------------------------------------------------------------------
\* capture_active_capabilities: what the running kernel says replaces what was declared.
CaptureCapabilities ==
  /\ stage = "kept"
  /\ \E reported \in SUBSET {AnswersNames, "stats_top_v1", "control_v1"} :
       IF Loaded(KeyOf(kept)) = Nothing THEN UNCHANGED kept
       ELSE kept' = [kept EXCEPT !.caps = Canonical(reported)]
  /\ stage' = "captured"
  /\ UNCHANGED <<offer, seen, found, archive, config, replacements, excuse>>

PackagesNext ==
  \/ ReadRelease \/ ReadManifest \/ DownloadPackage \/ NetworkFails \/ UnpackPackage
  \/ ReplaceFiles \/ AdoptBundled \/ CaptureCapabilities

PackagesSpec == PackagesInit /\ [][PackagesNext]_packageVars

---------------------------------------------------------------------------
PackagesTypeOK ==
  /\ stage \in {"start", "release", "resolved", "downloaded", "kept", "captured", "refused"}
  /\ kept \in Manifests \union {Nothing}
  /\ (kept # Nothing) = (stage \in {"kept", "captured"})
  /\ replacements \in 0 .. MaxReplacements /\ excuse \in BOOLEAN

\* Whatever one field of a release or of a full package is wrong and whatever GitHub gets
\* under the same tag in between: what was kept is read again under the key that the setting
\* holds (storage.rs:321 after storage.rs:26), says of itself what its own package says
\* (install.rs:118), is not offered once more while every later version is (catalog.rs:142),
\* and a release or a full package with nothing wrong is not refused.
KeptIsWhole ==
  /\ PackagesTypeOK
  /\ kept # Nothing =>
       /\ Loaded(Parsed(Encoded(KeyOf(kept)))) = kept
       /\ offer.kind = "release" =>
            /\ kept.tag = archive.sVersion /\ kept.digest = archive.bytes
            /\ SameCommit(kept.commit, archive.sCommit)
            /\ SameCommit(kept.upstream, archive.sUpstream)
            /\ stage = "kept" => kept.caps = archive.pCaps
            /\ \A t \in {t \in Tags : ParsedVersion(t) # Nothing} :
                 NoticeAvailable([found EXCEPT !.tag = t], KeyOf(kept), kept)
                   = Newer(ParsedVersion(t), ParsedVersion(archive.sVersion))
       /\ offer.kind = "bundled" /\ kept.id # Nothing =>
            /\ KeyOf(kept) = Key(offer.source, offer.envId, offer.envCommit)
            /\ kept.binary = offer.bBinary
  /\ stage = "refused" => excuse
=============================================================================
