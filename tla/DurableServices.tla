--------------------------- MODULE DurableServices ---------------------------
(***************************************************************************)
(* The services whose state is also an artifact file on the disk: the      *)
(* object store, the update store and the journal.  The file writes are    *)
(* steps of WorkflowKernel; here is what the services do to their state.   *)
(***************************************************************************)
EXTENDS Bytes, FiniteSets, Sequences, SequencesExt, Functions

-----------------------------------------------------------------------------
(* kernel/src/services/object_store_service.mc: named one-byte objects, each *)
(* with a version that moves whenever its value does.  The slots are filled  *)
(* in order and never freed, so the store is a function from the names in    *)
(* use; version 0 is kept for "no such object".                              *)

CONSTANT OBJECT_STORE_CAPACITY  \* 4 in the code

ASSUME ObjectStoreAssumption == OBJECT_STORE_CAPACITY \in Nat \ {0}

Object == [value : Byte, version : Byte \ {0}]

object_store_init == [name \in {} |-> [value |-> 0, version |-> 1]]

\* The version after 255 is 1.
object_next_version(version) == IF version = U8 - 1 THEN 1 ELSE version + 1

object_current_version(s, name) ==
    IF name \in DOMAIN s THEN s[name].version ELSE 0

object_create(s, name, value) ==
    IF name \in DOMAIN s THEN [state |-> s, status |-> "InvalidArgument"]
    ELSE IF Cardinality(DOMAIN s) >= OBJECT_STORE_CAPACITY
    THEN [state |-> s, status |-> "Exhausted"]
    ELSE [state  |-> [n \in DOMAIN s \union {name} |->
                         IF n = name THEN [value |-> value, version |-> 1]
                         ELSE s[n]],
          status |-> "Ok"]

\* Writing the value an object already has leaves its version alone.
object_replace(s, name, value) ==
    IF name \notin DOMAIN s THEN [state |-> s, status |-> "InvalidArgument"]
    ELSE IF s[name].value = value THEN [state |-> s, status |-> "Ok"]
    ELSE [state  |-> [s EXCEPT ![name] =
                         [value   |-> value,
                          version |-> object_next_version(@.version)]],
          status |-> "Ok"]

object_update(s, name, value) == object_replace(s, name, value)

object_update_if_version(s, name, value, version) ==
    IF name \in DOMAIN s /\ s[name].version # version
    THEN [state |-> s, status |-> "Conflict"]
    ELSE object_update(s, name, value)

-----------------------------------------------------------------------------
(* kernel/src/services/update_store_service.mc: the staged artifact, the     *)
(* manifest that describes it and the program installed from the two.  The   *)
(* installed review board and the launch record are the launcher's part.     *)

CONSTANT UPDATE_ARTIFACT_CAPACITY  \* 4 in the code

ASSUME UpdateAssumption == UPDATE_ARTIFACT_CAPACITY \in Nat \ {0}

Artifact  == Seq(Byte)
Manifest  == [present : BOOLEAN, version : Byte, expected_len : Byte]
Installed == [present : BOOLEAN, version : Byte, data : Artifact]

UpdateStoreServiceState ==
    [data : Artifact, manifest : Manifest, installed : Installed]

update_manifest_init == [present |-> FALSE, version |-> 0, expected_len |-> 0]
update_installed_init == [present |-> FALSE, version |-> 0, data |-> << >>]

update_store_init == [data      |-> << >>,
                      manifest  |-> update_manifest_init,
                      installed |-> update_installed_init]

\* The classification of the staged update that allows it to be applied.
update_ready(s) == /\ s.data # << >>
                   /\ s.manifest.present
                   /\ s.manifest.expected_len = Len(s.data)

update_stage(s, value) ==
    IF Len(s.data) >= UPDATE_ARTIFACT_CAPACITY
    THEN [state |-> s, status |-> "Exhausted"]
    ELSE [state |-> [s EXCEPT !.data = Append(@, value)], status |-> "Ok"]

update_record_manifest(s, version, expected_len) ==
    IF expected_len > UPDATE_ARTIFACT_CAPACITY
    THEN [state |-> s, status |-> "InvalidArgument"]
    ELSE [state  |-> [s EXCEPT !.manifest = [present |-> TRUE, version |-> version,
                                             expected_len |-> expected_len]],
          status |-> "Ok"]

update_apply(s) ==
    IF ~update_ready(s) THEN [state |-> s, status |-> "InvalidArgument"]
    ELSE [state  |-> [s EXCEPT !.installed = [present |-> TRUE,
                                              version |-> s.manifest.version,
                                              data    |-> s.data]],
          status |-> "Ok"]

\* Clearing the staging area keeps what is installed.
update_clear(s) == [s EXCEPT !.data = << >>, !.manifest = update_manifest_init]

-----------------------------------------------------------------------------
(* kernel/src/services/journal_service.mc: two durable lanes of up to four   *)
(* bytes.  Lane B belongs to the workflow service, which rewrites it as a    *)
(* whole; nothing stops a client from appending to it or clearing it.        *)

JOURNAL_RECORD_CAPACITY == 4  \* the four bytes workflow_lane_bytes fills

JOURNAL_LANE_A == 65
JOURNAL_LANE_B == 66

Lane == Seq(Byte)

\* lane0 and lane1 of the code, by the names clients use.
JournalServiceState == [{JOURNAL_LANE_A, JOURNAL_LANE_B} -> Lane]

journal_init == [name \in {JOURNAL_LANE_A, JOURNAL_LANE_B} |-> << >>]

journal_append(s, name, value) ==
    IF Len(s[name]) >= JOURNAL_RECORD_CAPACITY THEN s
    ELSE [s EXCEPT ![name] = Append(@, value)]

journal_clear(s, name) == [s EXCEPT ![name] = << >>]

journal_write_lane(s, name, data) == [s EXCEPT ![name] = data]
=============================================================================
