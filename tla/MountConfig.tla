---------------------------- MODULE MountConfig ----------------------------
(***************************************************************************)
(* From a Config to the options of a Dokan mount: which configurations     *)
(* Session::new takes, and what run makes of them (mount_options.rs,       *)
(* session.rs, operations.rs).                                             *)
(*                                                                         *)
(* An option is its name; a CUSTOM option is its value, folded in case.    *)
(* Names that nothing here looks at are in OtherOptions.                   *)
(***************************************************************************)
EXTENDS Integers

CONSTANT OtherOptions  \* options that have no effect on Windows

Contradictions ==
  {{"ro", "rw"}, {"dev", "nodev"}, {"suid", "nosuid"}, {"exec", "noexec"},
   {"atime", "noatime"}, {"sync", "async"}}

Inexpressible ==
  {"auto_unmount", "default_permissions", "dirsync"} \cup
  UNION (Contradictions \ {{"ro", "rw"}})

\* The options that turn on the driver's named streams.
DriverStreams == {"dokan_named_streams", "named_streams"}

\* Mutant: one spelling is missing from the second list.
VolumeStreamsShort == {"dokan_named_streams"}

\* Those that make the volume report named streams: a list of its own.
VolumeStreams == {"dokan_named_streams", "named_streams"}

Known ==
  {"ro", "rw", "single_thread", "debug"} \cup Inexpressible
  \cup DriverStreams \cup VolumeStreams
Options == Known \cup OtherOptions

ASSUME OptionsAssumption == OtherOptions \cap Known = {}

Unset == -1  \* n_threads = None

Configs ==
  [options : SUBSET Options, acl : {"owner", "root_and_owner", "all"},
   nThreads : Nat \cup {Unset}]

-----------------------------------------------------------------------------

\* validate_mount_options
Consistent(options) == \A pair \in Contradictions : ~ pair \subseteq options

\* validate_session_config, then the options.
Accepted(c) ==
  /\ ~(c.acl = "owner" /\ "auto_unmount" \in c.options)
  /\ c.nThreads # 0
  /\ Consistent(c.options)

\* to_dokan_mount_options: one option after the other adds its flag.
FlagOf(option) ==
  CASE option = "ro" -> {"WRITE_PROTECT"}
    [] option = "debug" -> {"DEBUG"}
    [] option \in DriverStreams -> {"ALT_STREAM"}
    [] OTHER -> {}
MountFlags(options) == UNION {FlagOf(option) : option \in options}

\* derive_volume_flags
VolumeFlags(options) ==
  IF VolumeStreams \cap options # {} THEN {"FILE_NAMED_STREAMS"} ELSE {}

\* apply_session_threading, after the options: what single_thread set among
\* them is overwritten.
SingleThread(c) == c.nThreads = 1

\* What run mounts.
Volume(c) ==
  [flags |-> MountFlags(c.options), fsFlags |-> VolumeFlags(c.options),
   singleThread |-> SingleThread(c)]

=============================================================================
