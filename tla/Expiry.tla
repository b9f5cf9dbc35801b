------------------------------- MODULE Expiry -------------------------------
(***************************************************************************)
(* Where an object store's expiry is written and read                      *)
(* (backends/object/ttl.py), and what its medium's driver can do           *)
(* (backends/object/*_driver.py).                                          *)
(*                                                                         *)
(* A write may carry a TTL and a clock of its own; the collection's source *)
(* of expiry turns them into what the medium stores with the object, and   *)
(* later into a verdict.  Times and durations are naturals; Unset stands   *)
(* for None, Never for TtlPolicy.none() and its far-future marker.         *)
(***************************************************************************)
EXTENDS Naturals

CONSTANTS
    Unset,    \* no value was given, or none is stored
    Never     \* no expiry: TtlPolicy.none(), TTL_NONE_EXPIRES_AT

ASSUME MarkersAssumption == Unset # Never /\ Unset \notin Nat /\ Never \notin Nat

(***************************************************************************)
(* The sources of expiry.  clock and ttl: whether a write may bring its    *)
(* own.  stamps: when an expiry is stored with the object.  mtime: the     *)
(* object's time is set to the clock.  head: a listing does not tell the   *)
(* stored expiry.                                                          *)
(***************************************************************************)
ObjectTimeTtl ==
    [clock |-> FALSE, ttl |-> FALSE, stamps |-> "never", mtime |-> FALSE, head |-> FALSE]
S3ExpiresTtl ==
    [clock |-> TRUE, ttl |-> TRUE, stamps |-> "explicit", mtime |-> FALSE, head |-> TRUE]
GcsCustomTimeTtl ==
    [clock |-> TRUE, ttl |-> TRUE, stamps |-> "always", mtime |-> FALSE, head |-> FALSE]
AzureMetadataTtl ==
    [clock |-> TRUE, ttl |-> TRUE, stamps |-> "explicit", mtime |-> FALSE, head |-> FALSE]
FilesystemMtimeTtl ==
    [clock |-> TRUE, ttl |-> FALSE, stamps |-> "never", mtime |-> TRUE, head |-> FALSE]
FilesystemSidecarTtl ==
    [clock |-> TRUE, ttl |-> TRUE, stamps |-> "explicit", mtime |-> TRUE, head |-> FALSE]

TtlSource ==
    [object_time |-> ObjectTimeTtl, expires |-> S3ExpiresTtl,
     custom_time |-> GcsCustomTimeTtl, metadata |-> AzureMetadataTtl,
     mtime |-> FilesystemMtimeTtl, sidecar |-> FilesystemSidecarTtl]

(***************************************************************************)
(* The drivers.  one_read: stat and body come with one request.  tells:    *)
(* its listing tells an object's stored expiry; walks: a listing stats     *)
(* each file when it reaches it.  probes: a delete of what a first look    *)
(* did not find is not sent.  raises: deleting what is gone raises, and so *)
(* does downloading it.  digest: the version tells contents apart, not     *)
(* writes.  replaces: it has a conditional replace.  bulk: it deletes many *)
(* objects in one request.                                                 *)
(***************************************************************************)
S3BlobDriver ==
    [one_read |-> TRUE, tells |-> FALSE, walks |-> FALSE, probes |-> TRUE, raises |-> {},
     digest |-> TRUE, replaces |-> TRUE, bulk |-> TRUE]
GcsBlobDriver ==
    [one_read |-> FALSE, tells |-> TRUE, walks |-> FALSE, probes |-> TRUE,
     raises |-> {"delete", "download"}, digest |-> FALSE, replaces |-> TRUE, bulk |-> TRUE]
AzureBlobDriver ==
    [one_read |-> FALSE, tells |-> TRUE, walks |-> FALSE, probes |-> TRUE,
     raises |-> {"delete"}, digest |-> FALSE, replaces |-> TRUE, bulk |-> TRUE]
FilesystemBlobDriver ==
    [one_read |-> FALSE, tells |-> TRUE, walks |-> TRUE, probes |-> FALSE, raises |-> {},
     digest |-> FALSE, replaces |-> FALSE, bulk |-> FALSE]

BlobDriver ==
    [s3 |-> S3BlobDriver, gcs |-> GcsBlobDriver, azure |-> AzureBlobDriver,
     fs |-> FilesystemBlobDriver]

\* The sources each leaf store offers: S3TtlMode, GcsTtlMode and the others.
S3Provisions == {[medium |-> "s3", source |-> s] : s \in {"object_time", "expires"}}
GcsProvisions == {[medium |-> "gcs", source |-> s] : s \in {"object_time", "custom_time"}}
AzureProvisions == {[medium |-> "azure", source |-> s] : s \in {"object_time", "metadata"}}
FsProvisions == {[medium |-> "fs", source |-> s] : s \in {"mtime", "sidecar"}}
Provisions == S3Provisions \cup GcsProvisions \cup AzureProvisions \cup FsProvisions

-----------------------------------------------------------------------------
\* A duration after a moment.
Plus(moment, duration) == IF duration = Never THEN Never ELSE moment + duration

\* resolve_ttl_seconds: a write's own policy, else the collection's.
ResolveTtl(ttl, collection) == IF ttl = Unset THEN collection ELSE ttl

\* _clock_base: the caller's created_at, else now.
ClockBase(created, now) == IF created = Unset THEN now ELSE created

\* _write_headers refuses a TTL or a clock the source cannot honour.
Honours(source, ttl, created) ==
    /\ ttl # Unset => TtlSource[source].ttl
    /\ created # Unset => TtlSource[source].clock

\* Mutant: custom_time written only with an explicit TTL.
ExplicitOnly(source, ttl, collection, base) ==
    IF TtlSource[source].stamps = "never" \/ ttl = Unset THEN Unset ELSE Plus(base, ttl)

\* write_headers, as the medium stores them.
NativeExpiry(source, ttl, collection, base) ==
    CASE TtlSource[source].stamps = "never" -> Unset
      [] TtlSource[source].stamps = "explicit" ->
           IF ttl = Unset THEN Unset ELSE Plus(base, ttl)
      [] TtlSource[source].stamps = "always" ->
           IF ttl = Unset /\ collection = Never THEN Unset
           ELSE Plus(base, ResolveTtl(ttl, collection))

\* The object's own time: a file's can be set, the clouds' is when it was written.
ModifiedAt(source, created, now) ==
    IF TtlSource[source].mtime THEN ClockBase(created, now) ELSE now

\* is_expired.
IsExpired(source, stat, collection, now) ==
    IF TtlSource[source].stamps # "never" /\ stat.native # Unset
    THEN stat.native # Never /\ now >= stat.native
    ELSE collection # Never /\ now >= stat.modified + collection

\* to_record_stat: the moment reported, Never if the record is persistent.
ReportedExpiry(source, stat, collection) ==
    IF TtlSource[source].stamps # "never" /\ stat.native # Unset
    THEN stat.native
    ELSE Plus(stat.modified, collection)

\* The moment a caller asked for: its clock and its policy, or the defaults.
AskedExpiry(ttl, collection, created, now) ==
    Plus(ClockBase(created, now), ResolveTtl(ttl, collection))

\* The one request a source accepts and does not carry to the medium: a clock
\* without a TTL of its own, where only an explicit TTL is written down.
ClockDropped(source, ttl, created) ==
    /\ created # Unset /\ ttl = Unset
    /\ TtlSource[source].stamps = "explicit" /\ ~TtlSource[source].mtime
=============================================================================
