---------------------------- MODULE MCKextLoading -----------------------------
(* Small instances of KextLoading for TLC. *)
EXTENDS KextLoading

Bundle(name, sig) ==
    [name |-> name, sig |-> sig, lists |-> {}, excluded |-> FALSE, owned |-> TRUE,
     dext |-> FALSE, userLoad |-> FALSE]

MCExcludeList == Bundle("AppleKextExcludeList", "valid")
MCContents == {Bundle("v1", "valid"), [Bundle("v2", "valid") EXCEPT !.excluded = TRUE],
               Bundle("v3", "bad"), [Bundle("d", "valid") EXCEPT !.dext = TRUE, !.userLoad = TRUE]}
MCStaged == {b \in MCContents : b.name = "v1"}
MCApproved == {b \in MCContents : b.name \in {"v1", "v2"}}

Tool(tool, opts) ==
    [tool |-> tool, root |-> TRUE, path |-> "inside", opts |-> opts, netboot |-> FALSE]
Nonroot(cmd) == [cmd EXCEPT !.root = FALSE]

Kextload == Tool("kextload", {})
MCGiven == <<{[Kextload EXCEPT !.netboot = TRUE], Nonroot(Kextload), Tool("kextunload", {}),
              Nonroot(Tool("kextutil", {"n", "t"})), Tool("clear", {}), Tool("prune", {}),
              Tool("stop", {}), Tool("enable", {})},
             {Tool("kextutil", {"i"}), Tool("kextutil", {"i", "s"}), Tool("kextutil", {"m"}), Tool("kextutil", {"l"})}>>
=============================================================================
