----------------------------- MODULE TrustStore -----------------------------
(***************************************************************************)
(* Acceptance of external definitions (trust.py) and the snapshot that a   *)
(* creation takes of the accepted one (_stable_external_definition).       *)
(* Bundled definitions need neither and do not change, so that a creation  *)
(* from one behaves like that of a definition nobody edits.                *)
(***************************************************************************)
EXTENDS HostCommand, Definitions

CONSTANTS
    Versions,       \* contents the definition's directory can have, by digest
    Original,       \* what it has before it is edited
    Text            \* of each, the definition that lab.yaml states

ASSUME OriginalAssumption == Original \in Versions

VARIABLES
    defn,           \* the content of the directory now
    trusted,        \* the digests in the trust file
    approved        \* those that the user ever accepted

trust == <<defn, trusted, approved>>

Loads(version) == Acceptable(Text[version])

TrustInit == defn = Original /\ trusted = approved

(* discover: every definition is loaded, and one that does not load, or that
   takes the ID of another without the override, fails the command. *)
Discovers == Loads(defn)

(* The catalogue may lack the ID; the provider may be another than KVM or not
   be found. *)
Discover(p) ==
    /\ At(p, "discover") /\ UNCHANGED trust
    /\ \/ Discovers /\ Proceed(p, "trust")
       \/ ~Discovers /\ Leave(p, "operation")
       \/ Leave(p, "absent")

(* Providers enabled by the configuration: their modules must load, have the
   version of the interface and IDs of their own, also beside the built-in one. *)
Providers(p) ==
    /\ At(p, "discover") /\ UNCHANGED trust
    /\ \E error \in {"operation", "conflict", "prerequisite"} : Leave(p, error)

(* The root of the libvirt storage is checked: its owner, its access, that no
   part is a link and that it is apart from the private directories. *)
StorageRoot(p) == At(p, "discover") /\ Leave(p, "parse") /\ UNCHANGED trust

(* The directory is digested; the digest must be in the trust file, or be
   accepted with --trust-external or at the prompt. *)
Accept(p) ==
    /\ At(p, "trust") /\ UNCHANGED <<defn, trusted>>
    /\ \/ /\ Goto(p, "read_trust") /\ Keep(p, [loc[p] EXCEPT !.version = defn])
          /\ approved' \in IF defn \in trusted THEN {approved} ELSE {approved \union {defn}}
       \/ defn \notin trusted /\ Leave(p, "prerequisite") /\ UNCHANGED approved

(* TrustStore.accept reads the file, adds the digest, and replaces it; there is
   no lock, so that of two concurrent acceptances one may be forgotten. *)
ReadTrust(p) ==
    /\ At(p, "read_trust") /\ Goto(p, "write_trust")
    /\ Keep(p, [loc[p] EXCEPT !.trust = trusted]) /\ UNCHANGED trust

WriteTrust(p) ==
    /\ At(p, "write_trust") /\ Goto(p, "snapshot")
    /\ trusted' = loc[p].trust \union {loc[p].version}
    /\ Keep(p, [loc[p] EXCEPT !.trust = {}]) /\ UNCHANGED <<defn, approved>>

(* The directory is copied, the copy digested, and loaded. *)
UncheckedSnapshot(p) ==   \* mutant: the copy is not compared with the accepted digest
    /\ At(p, "snapshot") /\ UNCHANGED trust
    /\ Loads(defn) /\ Goto(p, "resolve") /\ Keep(p, [loc[p] EXCEPT !.version = defn])

Snapshot(p) ==
    /\ At(p, "snapshot") /\ UNCHANGED trust
    /\ \/ defn = loc[p].version /\ Loads(defn) /\ Proceed(p, "resolve")
       \/ defn = loc[p].version /\ ~Loads(defn) /\ Leave(p, "operation")
       \/ defn # loc[p].version /\ Leave(p, "prerequisite")

(* Its author edits the definition. *)
EditDefinition ==
    /\ \E v \in Versions \ {defn} : defn' = v
    /\ UNCHANGED <<trusted, approved>>

TrustStep(p) ==
    \/ Discover(p) \/ Providers(p) \/ StorageRoot(p) \/ ReadTrust(p) \/ WriteTrust(p) \/ Snapshot(p)
=============================================================================
