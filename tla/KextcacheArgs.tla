--------------------------- MODULE KextcacheArgs ---------------------------
(***************************************************************************)
(* What a command line makes kextcache do, how far it authenticates, and    *)
(* which kexts it takes (kextcache_main.c: readArgs(), checkArgs(), main(),  *)
(* filterKextsForCache()).                                                  *)
(*                                                                         *)
(* Abstracted: architectures (the running one), the spelling of options,    *)
(* which of two values of an option wins, warnings.  The extensions folders  *)
(* are one folder, the volume is the root volume, the kexts named one by one *)
(* are that folder's.                                                        *)
(***************************************************************************)
EXTENDS Integers, FiniteSets

LOCAL INSTANCE FiniteSetsExt

CONSTANTS
    Kexts,      \* records of KextType
    Sip,        \* System Integrity Protection is on
    SignedOS    \* the volume's system has a Kernelcache key of version 1.3 or later

\* "use": what OSBundleRequired demands at "boot", what is "loaded" now.
KextType == [name : STRING, id : STRING, version : Nat,
             use : SUBSET {"boot", "loaded"},
             valid : BOOLEAN, signed : BOOLEAN, excluded : BOOLEAN,
             stageable : BOOLEAN, needs : SUBSET STRING]

ASSUME ArgsAssumption ==
    /\ Sip \in BOOLEAN /\ SignedOS \in BOOLEAN
    /\ \A k \in Kexts :
          /\ k.version \in Nat /\ k.use \subseteq {"boot", "loaded"}
          /\ {k.valid, k.signed, k.excluded, k.stageable} \subseteq BOOLEAN

Paths == {"system", "elsewhere"}

\* A command: its options, what it names on the command line, whether it names
\* the system's prelinked kernel, whether its kernel is the system's, and who runs it.
\* -U is -check-update, -f is -force, -z is -no-authentication.
Commands == [opts : SUBSET {"prelinked-kernel", "system-prelinked-kernel",
                            "system-caches", "update-volume", "invalidate", "U",
                            "Boot", "f", "Installer", "caches-only", "volume-root",
                            "compressed", "uncompressed", "z", "bundle-id",
                            "local-root", "all-loaded", "build-immutable-kernel",
                            "clear-staging", "prune-staging", "unknown"},
             urls : SUBSET {"kext", "folder", "system"},
             path : Paths, trusted : BOOLEAN, root : BOOLEAN]

-----------------------------------------------------------------------------
(* readArgs() *)

Updates(c) == c.opts \cap {"update-volume", "invalidate", "U"} # {}
Staging(c) == c.opts \cap {"clear-staging", "prune-staging"} # {}
MakesPLK(c) == c.opts \cap {"prelinked-kernel", "system-prelinked-kernel"} # {}
\* setSystemExtensionsFolders(), called once for each of the two.
SystemTargets(c) == c.opts \cap {"system-prelinked-kernel", "system-caches"}
\* argURLs; those of the command line are ignored when a volume is updated.
URLs(c) == (IF Updates(c) THEN {} ELSE c.urls) \cup
           (IF SystemTargets(c) # {} THEN {"system"} ELSE {})
ForcesHelpers(c) == c.opts \cap {"f", "Installer"} # {}
Path(c) == IF "system-prelinked-kernel" \in c.opts THEN "system" ELSE c.path

-----------------------------------------------------------------------------
(* checkArgs() *)

NoWork(c) ==
    /\ ~MakesPLK(c) /\ ~Updates(c) /\ "system-caches" \notin c.opts /\ ~Staging(c)

StagingMisused(c) ==
    Staging(c) /\ (MakesPLK(c) \/ Updates(c) \/ "system-caches" \in c.opts)

NothingNamed(c) ==
    /\ ~Updates(c) /\ URLs(c) = {} /\ ~Staging(c)
    /\ c.opts \cap {"compressed", "uncompressed"} = {}

BootOptionsMisused(c) ==
    \/ ForcesHelpers(c) /\ ("caches-only" \in c.opts \/ "U" \in c.opts \/ ~Updates(c))
    \/ "caches-only" \in c.opts /\ ("U" \in c.opts \/ ~Updates(c))
    \/ "Boot" \in c.opts /\ "U" \notin c.opts

\* The system's caches are made of the system's folders: if both options add
\* them, the list no longer equals the system's.
CustomKexts(c) ==
    /\ SystemTargets(c) # {}
    /\ \/ Cardinality(SystemTargets(c)) = 2
       \/ "bundle-id" \in c.opts
       \/ ~Updates(c) /\ c.urls # {}

IsProtected(path) == Sip /\ path = "system"

\* The exit status of kextcache if its arguments are refused.
CheckArgs(c) ==
    IF "unknown" \in c.opts \/ NoWork(c) \/ StagingMisused(c) THEN "EX_USAGE"
    ELSE IF Staging(c) /\ ~c.root THEN "EX_NOPERM"
    ELSE IF "volume-root" \in c.opts /\ ~MakesPLK(c) THEN "EX_USAGE"
    ELSE IF NothingNamed(c) \/ BootOptionsMisused(c) THEN "EX_USAGE"
    ELSE IF "invalidate" \in c.opts /\ ~c.root THEN "EX_NOPERM"
    ELSE IF CustomKexts(c) THEN "EX_USAGE"
    ELSE IF ~c.root /\ (SystemTargets(c) # {} \/ "build-immutable-kernel" \in c.opts)
         THEN "EX_NOPERM"
    ELSE IF MakesPLK(c) /\ IsProtected(Path(c)) /\ "z" \in c.opts THEN "EX_NOPERM"
    ELSE "EX_OK"

-----------------------------------------------------------------------------
(* main() *)

\* isProtectedAction()
ProtectedAction(c) ==
    \/ MakesPLK(c) /\ IsProtected(Path(c))
    \/ "system-caches" \in c.opts
    \/ Updates(c)

\* The authentication options that are set.
Authentication(c) ==
    IF "z" \in c.opts THEN {}
    ELSE {"filesystem"} \cup (IF SignedOS THEN {"signature"} ELSE {})
                        \cup (IF ProtectedAction(c) THEN {"secure", "policy"} ELSE {})

Mode(c) ==
    IF Staging(c) THEN "staging"
    ELSE IF {"U", "Boot"} \subseteq c.opts THEN "allowlist"
    ELSE IF Updates(c) THEN "update"
    ELSE IF ~MakesPLK(c) THEN "caches"
    ELSE IF URLs(c) = {} THEN "compress" ELSE "build"

\* -system-prelinked-kernel asks for what its filters are, too.
Flags(c) ==
    (c.opts \cap {"local-root", "all-loaded", "invalidate", "build-immutable-kernel",
                  "caches-only"})
    \cup (IF "system-prelinked-kernel" \in c.opts THEN {"local-root", "all-loaded"} ELSE {})

\* What the rest of the program uses of the command line; "folders": a folder,
\* not only kexts, is among its repositoryURLs.
Job(c) == [mode |-> Mode(c), path |-> Path(c), auth |-> Authentication(c),
           flags |-> Flags(c), folders |-> URLs(c) \cap {"folder", "system"} # {},
           trusted |-> c.trusted, root |-> c.root]

\* rebuild_kext_boot_cache_file(): the command that "kextcache -u" runs for "job".
RebuildCommand(job) ==
    [opts |-> {"prelinked-kernel", "volume-root"} \cup
              (IF "build-immutable-kernel" \in job.flags THEN {"build-immutable-kernel"}
               ELSE {"local-root", "all-loaded"}),
     urls |-> {"system"}, path |-> "system", trusted |-> TRUE, root |-> job.root]

\* The checks of createPrelinkedKernel() on the files it has opened.
MayWrite(job) ==
    IsProtected(job.path) =>
        /\ {"filesystem", "signature", "secure", "policy"} \subseteq job.auth
        /\ job.trusted

-----------------------------------------------------------------------------
(* filterKextsForCache() *)

\* requiredFlags: -local-root is for what is in folders; an immutable kernel takes
\* the kexts needed at boot, too, if no other filter is given.
Required(job) ==
    IF job.folders THEN job.flags \cap {"local-root", "build-immutable-kernel"} # {}
    ELSE "build-immutable-kernel" \in job.flags /\ "local-root" \notin job.flags

\* kextMatchesFilter()
Matches(k, job) ==
    \/ ~Required(job) /\ "all-loaded" \notin job.flags
    \/ Required(job) /\ "boot" \in k.use
    \/ "all-loaded" \in job.flags /\ "loaded" \in k.use

\* _appendIfNewest(): what becomes of the kexts taken so far.  A kext of version
\* 0 neither replaces another nor is replaced.
Append1(taken, k) ==
    LET same == {o \in taken : o.id = k.id /\ o.version > 0} IN
    IF \E o \in same : o.version >= k.version THEN taken
    ELSE (taken \ same) \cup {k}

\* The kexts that match, offered in any order.
Newest(ks) == FoldSet(LAMBDA k, taken : Append1(taken, k), {}, ks)

AnyIsAuthentic(k, job) == TRUE

\* OSKextIsAuthentic() as far as main() asked for it.
IsAuthentic(k, job) == "signature" \in job.auth => k.signed

\* The kexts of the folder that go into the prelinked kernel.
Selected(ks, job) ==
    {k \in Newest({k \in ks : Matches(k, job)}) :
        /\ k.valid
        /\ "secure" \in job.auth => k.stageable
        /\ ~k.excluded
        /\ IsAuthentic(k, job)
        /\ \A id \in k.needs : \E d \in ks : d.id = id /\ IsAuthentic(d, job)}
=============================================================================
