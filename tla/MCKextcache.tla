---------------------------- MODULE MCKextcache -----------------------------
(* Small instances of Kextcache for TLC. *)
EXTENDS Kextcache

Kext(name, use, signed) ==
    [name |-> name, id |-> name, version |-> 1, use |-> use, valid |-> TRUE,
     signed |-> signed, excluded |-> FALSE, stageable |-> TRUE, needs |-> {}]

\* A driver needed at boot, a newer one of it that is not signed, one that is loaded.
MCKexts == {Kext("a", {"boot"}, TRUE), [Kext("a2", {"boot"}, FALSE) EXCEPT !.id = "a", !.version = 2],
            Kext("b", {"loaded"}, TRUE)}
MCInstalled == {Kext("a", {"boot"}, TRUE)}
MCFolders == {MCInstalled, MCKexts}

Command(opts, path) ==
    [opts |-> opts, urls |-> {}, path |-> path, trusted |-> TRUE, root |-> TRUE]
Build == Command({"system-prelinked-kernel"}, "system")
Update == Command({"update-volume"}, "system")
UpdateImmutable == Command({"update-volume", "build-immutable-kernel"}, "system")
InvalidateImmutable == Command({"invalidate", "build-immutable-kernel"}, "system")
Compress == Command({"prelinked-kernel", "compressed"}, "system")
AllowList == Command({"U", "Boot"}, "system")
Custom == [Command({"prelinked-kernel", "z"}, "elsewhere") EXCEPT !.urls = {"kext"}, !.root = FALSE]
Untrusted == [Command({"prelinked-kernel"}, "system") EXCEPT !.urls = {"folder"}, !.trusted = FALSE]

MCGiven == <<{Build, Untrusted, Custom},
             {Update, UpdateImmutable, InvalidateImmutable, Compress, AllowList}>>
=============================================================================
