---------------------------- MODULE ConfigFactory ----------------------------
(***************************************************************************)
(* A service binding mounted as a volume, the platform that rotates it,    *)
(* and what core/secret_resolver/_config_factory.py remembers about it.    *)
(*                                                                         *)
(* Only the order of the contents of a binding matters, so the content is  *)
(* a version number.  Every rotation also changes the mtime of the         *)
(* directory, so the version stands for the mtime too.  A client of the    *)
(* factory extends this module and adds the steps of its threads.          *)
(***************************************************************************)
EXTENDS Integers

CONSTANTS
    MaxVersion,     \* bound: the binding is rotated at most this often
    NoMtime,        \* _last_mtime is None
    Mounted         \* the watched directory exists (FALSE: env vars, or the
                    \* flat SERVICE_BINDING_ROOT layout has_changed cannot see)

ASSUME VersionAssumption == MaxVersion \in Nat
ASSUME MtimeAssumption == NoMtime \notin Int
ASSUME MountedAssumption == Mounted \in BOOLEAN

VARIABLES
    binding,        \* version of the binding now on disk
    accepted,       \* versions whose credentials and tokens the servers accept
    lastMtime       \* ConfigFactory._last_mtime

bindingVars == <<binding, accepted, lastMtime>>

Versions == 0 .. MaxVersion

BindingTypeOK ==
    /\ binding \in Versions
    /\ accepted \subseteq Versions
    /\ lastMtime \in Versions \cup {NoMtime}

(***************************************************************************)
(* The servers always know the credentials that are mounted.               *)
(***************************************************************************)
MountedIsAccepted == binding \in accepted

BindingInit ==
    /\ binding = 0
    /\ accepted = {0}
    /\ lastMtime = NoMtime

(***************************************************************************)
(* The platform: new credentials become valid before they are mounted, the *)
(* old ones are revoked some time after.                                   *)
(***************************************************************************)
RotateBinding ==
    /\ binding < MaxVersion
    /\ binding' = binding + 1
    /\ accepted' = accepted \cup {binding + 1}
    /\ UNCHANGED lastMtime

RevokeOld ==
    /\ accepted # {binding}
    /\ accepted' = {binding}
    /\ UNCHANGED <<binding, lastMtime>>

(***************************************************************************)
(* has_changed: os.stat first, then compare with and overwrite             *)
(* _last_mtime.  Callers hold no lock between the two.                     *)
(***************************************************************************)
MtimeChanged(mtime) == lastMtime # NoMtime /\ mtime # lastMtime

Remember(mtime) == lastMtime' = mtime

=============================================================================
