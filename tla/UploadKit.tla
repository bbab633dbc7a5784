----------------------------- MODULE UploadKit -----------------------------
(* The private torrent and the upload kit of a release, and the bytes that   *)
(* leave the machine (src/bdencode/release/torrent.py, release/package.py    *)
(* and the build, download and publication of ReleaseService).  The module   *)
(* Release has the states of a preparation; here is what is in its files     *)
(* while the completed MKV, its screenshots and the kit can be changed at    *)
(* any moment.  A content stands for its digest: two contents are the same   *)
(* when they hash alike.                                                     *)
EXTENDS Integers, Sequences

CONSTANTS
    Pieces,        \* pieces of the payload
    MaxEdits,      \* changes of the payload, its screenshots or the kit
    MaxBuilds, MaxSendings, MaxKitCrashes

ASSUME KitAssumption ==
    /\ Pieces \in Nat \ {0} /\ MaxEdits \in Nat /\ MaxBuilds \in Nat
    /\ MaxSendings \in Nat /\ MaxKitCrashes \in Nat

VARIABLES
    payload,   \* version of the completed MKV, which its fingerprint shows
    picture,   \* version of its screenshots
    prep,      \* the preparation: state, payload it is bound to, approved manifest
    builder,   \* the build under way
    scratch,   \* the torrent of the scratch directory
    stage, kit,     \* a kit under its temporary and under its final name
    sender,    \* what is being read to be sent
    sent,      \* what was sent last, and the manifest it was compared with
    edits, builds, sendings, kitCrashes

kitVars == <<payload, picture, prep, builder, scratch, stage, kit, sender, sent,
             edits, builds, sendings, kitCrashes>>
bounds  == <<edits, builds, sendings, kitCrashes>>

Files      == {"torrent", "text", "screenshots", "request"}
NoTorrent  == <<>>                     \* a torrent is its piece hashes
NoManifest == [payload |-> 0, files |-> <<>>]
NoKit      == [manifest |-> NoManifest, files |-> <<>>]
NoBuild    == [at |-> "idle", guard |-> 0, read |-> <<>>, torrent |-> NoTorrent, manifest |-> NoManifest]
NoSending  == [at |-> "idle", manifest |-> NoManifest, got |-> <<>>]
NotSent    == [manifest |-> NoManifest, files |-> <<>>]
Whole(v)   == [i \in 1..Pieces |-> v]
Spoilt     == <<0>>

KitInit ==
    /\ payload = 1 /\ picture = 1
    /\ prep = [state |-> "NOT_PREPARED", payload |-> 1, manifest |-> NoManifest]
    /\ builder = NoBuild /\ scratch = NoTorrent /\ stage = NoKit /\ kit = NoKit
    /\ sender = NoSending /\ sent = NotSent
    /\ edits = 0 /\ builds = 0 /\ sendings = 0 /\ kitCrashes = 0

-----------------------------------------------------------------------------
(* Around the release                                                        *)

\* The MKV or a screenshot is replaced or written to.
Edit ==
    /\ edits < MaxEdits /\ edits' = edits + 1
    /\ \/ payload' = payload + 1 /\ UNCHANGED picture
       \/ picture' = picture + 1 /\ UNCHANGED payload
    /\ UNCHANGED <<prep, builder, scratch, stage, kit, sender, sent, builds, sendings, kitCrashes>>

\* A file of the kit, or its manifest, is written to.
Spoil ==
    /\ edits < MaxEdits /\ edits' = edits + 1 /\ kit # NoKit
    /\ \/ \E f \in Files : kit' = [kit EXCEPT !.files[f] = Spoilt]
       \/ kit' = [kit EXCEPT !.manifest = NoManifest]
    /\ UNCHANGED <<payload, picture, prep, builder, scratch, stage, sender, sent,
                   builds, sendings, kitCrashes>>

-----------------------------------------------------------------------------
(* ReleaseService.build                                                      *)

BuilderAt(place) == builder.at = place
BuilderTo(place) == builder' = [builder EXCEPT !.at = place]

\* verify_upload_kit
Matches(k, manifest) == k.manifest = manifest /\ k.files = manifest.files

\* The build takes its files with it, the kit of an earlier build under the
\* final name included; what the row says of that kit stays.
BuildFails ==
    /\ prep' = [prep EXCEPT !.state = "FAILED"]
    /\ builder' = NoBuild /\ scratch' = NoTorrent /\ stage' = NoKit /\ kit' = NoKit
    /\ UNCHANGED <<payload, picture, sender, sent, edits, builds, sendings, kitCrashes>>

\* The preflight hashes the payload, and PREPARING keeps a second build out.
BuildStarts ==
    /\ BuilderAt("idle") /\ prep.state \in {"NOT_PREPARED", "FAILED", "NEEDS_REVIEW"} /\ builds < MaxBuilds
    /\ payload = prep.payload /\ (prep.manifest # NoManifest => Matches(kit, prep.manifest))
    /\ builds' = builds + 1
    /\ prep' = [prep EXCEPT !.state = "PREPARING"]
    /\ BuilderTo("begin")
    /\ UNCHANGED <<payload, picture, scratch, stage, kit, sender, sent, edits, sendings, kitCrashes>>

\* The piece length is chosen for the payload that is there now.
TorrentBegins ==
    /\ BuilderAt("begin")
    /\ builder' = [builder EXCEPT !.at = "hash", !.guard = payload]
    /\ UNCHANGED <<payload, picture, prep, scratch, stage, kit, sender, sent, bounds>>

\* _hash_payload, for the torrent and again for the kit.
HashPiece ==
    /\ builder.at \in {"hash", "rehash"} /\ Len(builder.read) < Pieces
    /\ builder' = [builder EXCEPT !.read = Append(@, payload)]
    /\ UNCHANGED <<payload, picture, prep, scratch, stage, kit, sender, sent, bounds>>

\* The fingerprint is the one from before the first piece.
Guarded == payload = builder.guard
Hashed  == Len(builder.read) = Pieces

\* build_private_torrent writes the torrent of what it has hashed, ...
TorrentWritten ==
    /\ BuilderAt("hash") /\ Hashed
    /\ IF Guarded
         THEN /\ scratch' = builder.read
              /\ builder' = [builder EXCEPT !.at = "check", !.torrent = builder.read]
              /\ UNCHANGED <<payload, picture, prep, stage, kit, sender, sent, bounds>>
         ELSE BuildFails

\* Variant: the torrent is kept whatever payload it is of.
TorrentTaken ==
    /\ BuilderAt("check")
    /\ builder' = [builder EXCEPT !.at = "rehash", !.guard = payload, !.read = <<>>]
    /\ UNCHANGED <<payload, picture, prep, scratch, stage, kit, sender, sent, bounds>>

\* ... looks at the payload and at the torrent once more, and the build wants
\* the digest the preparation was made for.
TorrentChecked ==
    /\ BuilderAt("check")
    /\ IF Guarded /\ scratch = builder.torrent /\ builder.torrent = Whole(prep.payload)
         THEN /\ builder' = [builder EXCEPT !.at = "rehash", !.guard = payload, !.read = <<>>]
              /\ UNCHANGED <<payload, picture, prep, scratch, stage, kit, sender, sent, bounds>>
         ELSE BuildFails

\* verify_torrent inside build_upload_kit, of whose tests the one that hashes
\* every piece again can fail: the form is that of the torrent just written.
PayloadProved ==
    /\ BuilderAt("rehash") /\ Hashed
    /\ IF Guarded /\ builder.read = scratch /\ kit = NoKit
         THEN /\ stage' = [NoKit EXCEPT !.files = [f \in {"torrent"} |-> scratch]]
              /\ BuilderTo("stage")
              /\ UNCHANGED <<payload, picture, prep, scratch, kit, sender, sent, bounds>>
         ELSE BuildFails

\* What the screenshots are when they are read into the kit: they were compared
\* with the digests of the comparison a moment before.
Screenshots == <<picture>>

\* MediaInfo, NFO and description are made anew by every build.
ReleaseText == <<builds>>

\* The other files, and at last the manifest with the digests of them all.
Contents == [f \in Files |-> CASE f = "torrent" -> stage.files["torrent"]
                               [] f = "screenshots" -> Screenshots
                               [] OTHER -> ReleaseText]

KitStaged ==
    /\ BuilderAt("stage")
    /\ LET manifest == [payload |-> builder.read[1], files |-> Contents] IN
       /\ stage' = [manifest |-> manifest, files |-> Contents]
       /\ builder' = [builder EXCEPT !.at = "publish", !.manifest = manifest]
    /\ UNCHANGED <<payload, picture, prep, scratch, kit, sender, sent, bounds>>

KitPublished ==
    /\ BuilderAt("publish")
    /\ IF Matches(stage, builder.manifest) /\ kit = NoKit
         THEN /\ kit' = stage /\ stage' = NoKit
              /\ BuilderTo("final")
              /\ UNCHANGED <<payload, picture, prep, scratch, sender, sent, bounds>>
         ELSE BuildFails

KitReady ==
    /\ BuilderAt("final")
    /\ IF Matches(kit, builder.manifest)
         THEN /\ prep' = [prep EXCEPT !.state = "READY", !.manifest = builder.manifest]
              /\ builder' = NoBuild /\ scratch' = NoTorrent
              /\ UNCHANGED <<payload, picture, stage, kit, sender, sent, bounds>>
         ELSE BuildFails

\* A duplicate check sends the preparation back.
NeedsReview ==
    /\ prep.state = "READY"
    /\ prep' = [prep EXCEPT !.state = "NEEDS_REVIEW"]
    /\ UNCHANGED <<payload, picture, builder, scratch, stage, kit, sender, sent, bounds>>

\* A full disk, a tool that fails.
BuildBreaks == builder.at \notin {"idle"} /\ BuildFails

\* The API is killed; its next start takes away what the build left.
KitCrash ==
    /\ kitCrashes < MaxKitCrashes /\ (builder # NoBuild \/ sender # NoSending)
    /\ kitCrashes' = kitCrashes + 1
    /\ sender' = NoSending
    /\ IF prep.state = "PREPARING"
         THEN /\ prep' = [prep EXCEPT !.state = "FAILED"]
              /\ builder' = NoBuild /\ scratch' = NoTorrent /\ stage' = NoKit /\ kit' = NoKit
         ELSE UNCHANGED <<prep, builder, scratch, stage, kit>>
    /\ UNCHANGED <<payload, picture, sent, edits, builds, sendings>>

-----------------------------------------------------------------------------
(* load_verified_upload_kit, for the tracker, qBittorrent and the download   *)

Want(what) == IF what = "torrent" THEN {"torrent"} ELSE Files

SendingStarts ==
    /\ sender.at = "idle" /\ sendings < MaxSendings
    /\ prep.manifest # NoManifest /\ kit.manifest = prep.manifest
    /\ sendings' = sendings + 1
    /\ sender' = [at |-> "read", manifest |-> kit.manifest, got |-> <<>>]
    /\ UNCHANGED <<payload, picture, prep, builder, scratch, stage, kit, sent, edits, builds, kitCrashes>>

\* One file after the other is read and compared; a file that is not what the
\* manifest says ends it.
FileVerified ==
    /\ sender.at = "read"
    /\ \E f \in Files \ DOMAIN sender.got :
         sender' = IF f \in DOMAIN kit.files /\ kit.files[f] = sender.manifest.files[f]
                   THEN [sender EXCEPT !.got = [g \in DOMAIN sender.got \cup {f} |->
                             IF g = f THEN kit.files[f] ELSE sender.got[g]]]
                   ELSE NoSending
    /\ UNCHANGED <<payload, picture, prep, builder, scratch, stage, kit, sent, bounds>>

\* Variant: what was verified is read again to be sent.
SentFromDisk ==
    /\ sender.at = "read" /\ DOMAIN sender.got = Files
    /\ \E what \in {"torrent", "kit"} :
         sent' = [manifest |-> sender.manifest,
                  files |-> [f \in Want(what) \cap DOMAIN kit.files |-> kit.files[f]]]
    /\ sender' = NoSending
    /\ UNCHANGED <<payload, picture, prep, builder, scratch, stage, kit, bounds>>

\* The bytes that were compared are the bytes that are sent.
Sent ==
    /\ sender.at = "read" /\ DOMAIN sender.got = Files
    /\ \E what \in {"torrent", "kit"} :
         sent' = [manifest |-> sender.manifest, files |-> [f \in Want(what) |-> sender.got[f]]]
    /\ sender' = NoSending
    /\ UNCHANGED <<payload, picture, prep, builder, scratch, stage, kit, bounds>>

KitNext ==
    \/ Edit \/ Spoil \/ NeedsReview \/ BuildStarts \/ TorrentBegins \/ HashPiece \/ TorrentWritten \/ TorrentChecked \/ PayloadProved
    \/ KitStaged \/ KitPublished \/ KitReady \/ BuildBreaks \/ KitCrash
    \/ SendingStarts \/ FileVerified \/ Sent

KitSpec == KitInit /\ [][KitNext]_kitVars

-----------------------------------------------------------------------------
(* The torrent of an approved kit is of one version of the payload, the one  *)
(* the preparation was made for, though the file may change between any two  *)
(* pieces; a kit under its final name is never half written; and whatever    *)
(* happens to the kit afterwards, only the approved contents are sent.       *)
OnlyTheApprovedLeaves ==
    /\ \A manifest \in {prep.manifest, sent.manifest} \ {NoManifest} :
         /\ manifest.payload = prep.payload
         /\ manifest.files["torrent"] = Whole(prep.payload)
    /\ kit # NoKit => DOMAIN kit.files = Files
    /\ \A f \in DOMAIN sent.files : sent.files[f] = sent.manifest.files[f]

(* A build that failed left nothing but the row, and the row says so: the    *)
(* state FAILED leads back to PREPARING (docs/ARCHITECTURE.md, release       *)
(* preparation), so what the row still names of a kit is on disk.            *)
FailedCanBeBuilt ==
    prep.state = "FAILED" /\ prep.manifest # NoManifest => Matches(kit, prep.manifest)
=============================================================================
