------------------------------ MODULE KextPolicy ------------------------------
(***************************************************************************)
(* What a kext must be to be loaded, and who may ask for it: authentication *)
(* (security.c), the options each tool authenticates with, the checks of    *)
(* kextutil's arguments and of kextd's load requests.  Pure operators; the  *)
(* programs that use them are in KextLoading.                               *)
(*                                                                         *)
(* A bundle is a record of what these checks tell apart:                    *)
(*   sig      "valid" for its identifier's requirement, "revoked" (valid    *)
(*            unless the network is asked), "weak" (an obsolete envelope),  *)
(*            "bad"                                                         *)
(*   lists    the exception lists that have its hash                        *)
(*   excluded the exclude list has it        owned   by root, not writable  *)
(*   dext     it runs in user space          userLoad anybody may load it   *)
(***************************************************************************)

CONSTANTS
    Csr,        \* what csr_check() allows: "untrusted" kexts, Apple "internal"
    ExcludeList \* the bundle AppleKextExcludeList.kext, which holds the lists

Bundles == [name : STRING, sig : {"valid", "revoked", "weak", "bad"},
            lists : SUBSET {"exceptions", "strict"},
            excluded : BOOLEAN, owned : BOOLEAN, dext : BOOLEAN, userLoad : BOOLEAN]

ASSUME PolicyAssumption == Csr \subseteq {"untrusted", "internal"}

-----------------------------------------------------------------------------
(* Signatures. *)

isSIPDisabled == "untrusted" \in Csr

isInvalidSignatureAllowed == Csr # {}

\* SecStaticCodeCheckValidity(): revocation is only seen over the network.
SignedWell(b, allowNetwork) ==
    b.sig = "valid" \/ (b.sig = "revoked" /\ ~ allowNetwork)

\* The lists count if the kext that holds them is itself signed.
InExceptionList(b, list) ==
    /\ isSIPDisabled \/ SignedWell(ExcludeList, FALSE)
    /\ list \in b.lists

checkKextSignature(b, checkExceptionList, allowNetwork) ==
    \/ SignedWell(b, allowNetwork)
    \/ /\ checkExceptionList
       /\ InExceptionList(b, IF b.sig = "weak" THEN "strict" ELSE "exceptions")

SignatureAccepted(b, allowNetwork) ==
    checkKextSignature(b, TRUE, allowNetwork) \/ isInvalidSignatureAllowed

\* What is moved to the protected folder was validated there, over the network.
kextBundleValidates(b) == SignatureAccepted(b, TRUE)

\* Only the staging area is protected, in this model, and only while SIP is on.
pathIsSecure(place) == isSIPDisabled \/ place = "staged"

-----------------------------------------------------------------------------
(* The options of an authentication, and authenticateKext(). *)

AuthOptions == [network : BOOLEAN, files : BOOLEAN, signature : BOOLEAN,
                location : BOOLEAN, policy : BOOLEAN]

KextdAuthenticationOptions ==
    [network |-> FALSE, files |-> TRUE, signature |-> TRUE, location |-> TRUE, policy |-> TRUE]

\* kextload in its own process: early in boot it asks nobody.
KextloadOptions(earlyBoot) ==
    [network |-> ~ earlyBoot, files |-> TRUE, signature |-> TRUE, location |-> TRUE,
     policy |-> ~ earlyBoot]

\* ... for the two kexts a diskless netboot needs.
NetbootOptions(o) == [o EXCEPT !.signature = FALSE, !.location = FALSE, !.policy = FALSE]

\* kextutil, by what its arguments ask for.
KextutilOptions(args, root) ==
    LET secure == args.doLoad \/ args.doStartMatching
        checks == ~ (args.skipAuthentication /\ ~ secure)
    IN  [network |-> TRUE, files |-> checks, signature |-> checks, location |-> checks,
         policy |-> checks /\ (secure \/ root)]

\* All that authenticateKext() looks at itself, in its order, ...
PassesChecks(b, o, place) ==
    /\ ~ b.excluded
    /\ o.files => b.owned
    /\ o.signature => SignatureAccepted(b, o.network)
    /\ o.location => pathIsSecure(place)

\* ... before it asks syspolicyd; isDextAllowed() is a stub that agrees.
AsksPolicy(b, o) == o.policy /\ ~ b.dext

-----------------------------------------------------------------------------
(* Who may ask. *)

\* createAbsOrRealURLForURL(), checkNonrootLoadAllowed(): someone who is not
\* root may load what allows it, by a path that stays in the extensions
\* folders also when links are resolved.
MayRequest(b, cmd) ==
    cmd.root \/ (cmd.path = "inside" /\ b.userLoad)

\* What kextutil's options amount to: -a and -A imply -n.
NoLoad(o) == o \cap {"n", "a", "A"} # {}

KextutilArgs(o) ==
    LET load == ~ NoLoad(o) /\ "m" \notin o
        match == ~ NoLoad(o) /\ "l" \notin o
    IN  [doLoad |-> load, doStartMatching |-> match, interactive |-> "i" \in o, symbols |-> "s" \in o,
         skipAuthentication |-> "z" \in o \/ ~ (load \/ match \/ "t" \in o)]

\* checkArgs() of kextutil: i(nteractive), q(uiet), s(ymbols), k(ernel),
\* z (no authentication), Z (no dependencies), a and A (addresses).
KextutilAccepts(o, root) ==
    LET args == KextutilArgs(o)
        enters == args.doLoad \/ args.doStartMatching
    IN  /\ ~ ({"l", "m"} \subseteq o) /\ (NoLoad(o) => {"l", "m"} \cap o = {})
        /\ args.interactive => enters
        /\ "q" \in o => ~ args.interactive /\ ("s" \in o => args.doLoad \/ {"a", "A"} \cap o # {})
        /\ "a" \in o => ~ args.doLoad /\ "A" \notin o
        /\ enters => {"k", "z"} \cap o = {} /\ root
        /\ "Z" \in o => ~ args.doLoad /\ "s" \notin o
=============================================================================
