------------------------------- MODULE MCLto -------------------------------
(***************************************************************************)
(* Small command lines for Lto.                                            *)
(***************************************************************************)
EXTENDS Lto, TLC

MCNames == {"main", "f", "g", "h", "p"}

Def(s) == [sym |-> s, use |-> "Regular", hidden |-> FALSE]
Hid(s) == [sym |-> s, use |-> "Regular", hidden |-> TRUE]
WeakDef(s) == [sym |-> s, use |-> "Weak", hidden |-> FALSE]
Dyn(s) == [sym |-> s, use |-> "Shared", hidden |-> FALSE]
Ref(s) == [sym |-> s, use |-> "Reference", hidden |-> FALSE]
WeakRef(s) == [sym |-> s, use |-> "WeakReference", hidden |-> FALSE]

File(kind) ==
  [kind |-> kind, arch |-> "x64", fits |-> TRUE, gcc |-> "none", soname |-> "none", needs |-> {}, versioned |-> {},
   syms |-> <<>>, ir |-> <<>>, members |-> <<>>, indexed |-> FALSE, index |-> <<>>,
   broken |-> FALSE, commands |-> <<>>]

Obj(syms) == [File("rel") EXCEPT !.syms = syms]
Foreign(syms) == [Obj(syms) EXCEPT !.arch = "a64"]
Bitcode(ir) == [File("bitcode") EXCEPT !.ir = ir]
Slim(ir) == [File("rel") EXCEPT !.gcc = "slim", !.ir = ir]
Fat(ir) == [File("rel") EXCEPT !.gcc = "fat", !.ir = ir, !.syms = ir]
So(soname, needs, syms) == [File("dyn") EXCEPT !.soname = soname, !.needs = needs, !.syms = syms]

Member(off, c) == [off |-> off, content |-> c, path |-> <<"lib", c, "o">>]
Ar(kind, members, index) ==
  [File(kind) EXCEPT !.members = members, !.index = index, !.indexed = index # <<>>]
Ix(name, off) == [name |-> name, off |-> off]

Script(commands) == [File("script") EXCEPT !.commands = commands]
Cmd(op, list) == [op |-> op, list |-> list]
PathEntry(p) == [lib |-> FALSE, name |-> p, asNeeded |-> FALSE]
LibEntry(n) == [lib |-> TRUE, name |-> n, asNeeded |-> TRUE]

Contents ==
  [main    |-> Obj(<<Def("main"), Ref("f"), Ref("g")>>),
   callf   |-> Obj(<<Def("main"), Ref("f")>>),
   weakf   |-> Obj(<<Def("main"), WeakRef("f"), WeakRef("h")>>),
   deff    |-> Obj(<<Def("f"), Ref("h")>>),
   defg    |-> Obj(<<Def("g")>>),
   defh    |-> Obj(<<Def("h"), Ref("p")>>),
   defh2   |-> Obj(<<Def("h")>>),
   a64f    |-> Foreign(<<Def("f")>>),
   a64     |-> Foreign(<<Def("main")>>),
   any     |-> [Obj(<<Def("g")>>) EXCEPT !.arch = "any"],
   wide    |-> [Obj(<<Def("g")>>) EXCEPT !.fits = FALSE],
   exec    |-> File("exec"), empty |-> File("empty"), data |-> File("other"),
   bcf     |-> Bitcode(<<Def("f"), Ref("g"), Ref("h")>>),
   bcg     |-> Bitcode(<<Def("g"), WeakDef("f")>>),
   bcmain  |-> Bitcode(<<Def("main"), Ref("f"), Hid("h")>>),
   slimf   |-> Slim(<<Def("f"), Ref("h")>>),
   fatg    |-> Fat(<<Def("g"), Ref("f")>>),
   sof     |-> So("so.f", {}, <<Dyn("f"), Ref("g")>>),
   sog     |-> So("so.g", {}, <<Dyn("g"), Ref("h"), Dyn("f")>>),
   soh     |-> So("so.h", {"so.f"}, <<Dyn("h"), Ref("f")>>),
   soa64   |-> [File("dyn") EXCEPT !.arch = "a64", !.soname = "so.a"],
   sofv    |-> [So("so.f", {}, <<Dyn("f")>>) EXCEPT !.versioned = {"f"}],
   sof2    |-> So("so.f", {}, <<Dyn("f")>>),
   arfg    |-> Ar("archive", <<Member(8, "deff"), Member(68, "defg")>>, <<Ix("f", 8), Ix("g", 68)>>),
   arh     |-> Ar("archive", <<Member(8, "defh2")>>, <<Ix("h", 8)>>),
   arbad   |-> Ar("archive", <<Member(8, "defg")>>, <<Ix("g", 9)>>),
   arnone  |-> Ar("archive", <<Member(8, "deff"), Member(68, "bcg")>>, <<>>),
   arir    |-> Ar("archive", <<Member(8, "bcf"), Member(68, "bcg"), Member(99, "fatg")>>,
                  <<Ix("f", 8)>>),
   arstale |-> Ar("archive", <<Member(8, "bcf")>>, <<Ix("f", 8), Ix("g", 8)>>),
   arslim  |-> Ar("archive", <<Member(8, "slimf"), Member(68, "defg")>>,
                  <<Ix("lto marker", 8), Ix("g", 68)>>),
   ara64   |-> Ar("archive", <<Member(8, "a64f")>>, <<Ix("f", 8)>>),
   armixed |-> Ar("archive", <<Member(8, "defg"), Member(68, "a64f")>>, <<Ix("g", 8), Ix("f", 68)>>),
   thin    |-> Ar("thin", <<Member(8, "deff"), Member(68, "defg")>>, <<Ix("f", 8), Ix("g", 68)>>),
   torn    |-> [Ar("archive", <<>>, <<Ix("f", 8)>>) EXCEPT !.broken = TRUE],
   once    |-> Script(<<Cmd("input", <<PathEntry(<<".", "deff", "o">>), LibEntry("h")>>)>>),
   twice   |-> Script(<<Cmd("ignored", <<>>), Cmd("input", <<PathEntry(<<"lib", "once", "t">>)>>),
                        Cmd("lib", <<PathEntry(<<".", "defg", "o">>)>>)>>),
   self    |-> Script(<<Cmd("input", <<PathEntry(<<"lib", "self", "t">>)>>)>>),
   odd     |-> Script(<<Cmd("other", <<>>)>>),
   lost    |-> Script(<<Cmd("input", <<PathEntry(<<".", "nowhere", "o">>)>>)>>)]

(* Objects and scripts by their own names; libraries in two directories.  *)
Here(c) == <<".", c, "o">>
Objects == {"main", "callf", "weakf", "a64", "any", "wide", "exec", "empty", "data", "bcf", "bcg",
            "bcmain", "slimf", "fatg"}
InLib == {"deff", "defg", "defh", "defh2", "bcg"}
Scripts == {"once", "twice", "self", "odd", "lost"}

Disk(libs) ==
  LET fixed == {Here(c) : c \in Objects} \cup {<<"lib", c, "o">> : c \in InLib}
               \cup {<<"lib", c, "t">> : c \in Scripts}
  IN [p \in fixed \cup DOMAIN libs |-> IF p \in DOMAIN libs THEN libs[p] ELSE p[2]]

Plain == [static |-> FALSE, whole |-> FALSE, lazy |-> FALSE, asNeeded |-> FALSE]
Spec1(kind, name, attrs) == [kind |-> kind, name |-> name, attrs |-> attrs]
O(c) == Spec1("file", Here(c), Plain)
T(c) == Spec1("file", <<"lib", c, "t">>, Plain)
L(n) == Spec1("lib", n, Plain)
Whole(n) == Spec1("lib", n, [Plain EXCEPT !.whole = TRUE])
AsNeeded(n) == Spec1("lib", n, [Plain EXCEPT !.asNeeded = TRUE])
Lazy(c) == Spec1("file", Here(c), [Plain EXCEPT !.lazy = TRUE])

So1(n) == <<"lib", n, "so">>
A1(n) == <<"lib", n, "a">>
A2(n) == <<"usr", n, "a">>

Quiet == [adds |-> FALSE, errors |-> FALSE, fatal |-> FALSE, bad |-> FALSE, claims |-> FALSE,
          cleans |-> TRUE]
Claims == [Quiet EXCEPT !.adds = TRUE, !.claims = TRUE]
Fatal == [Quiet EXCEPT !.fatal = TRUE]
Bad == [Quiet EXCEPT !.bad = TRUE]
Errs == [Quiet EXCEPT !.errors = TRUE]
NoCleanUp == [Quiet EXCEPT !.cleans = FALSE]
Hesitates == [Quiet EXCEPT !.adds = TRUE]

Job(specs, libs) ==
  [specs |-> specs, disk |-> Disk(libs), rewritten |-> <<>>, content |-> Contents, mayCancel |-> FALSE,
   dirs |-> <<"lib", "usr">>, ltoDirs |-> <<"usr">>, sysroot |-> [d \in {"lib"} |-> "root"],
   sysrootDirs |-> {}, target |-> "none", staticOutput |-> FALSE, relocatable |-> FALSE,
   exportAll |-> FALSE, listed |-> {}, scriptLocal |-> {}, internal |-> <<Ref("main")>>,
   lto |-> "none", answers |-> {}, loading |-> {}, compiling |-> {}, cleaning |-> {},
   unloadable |-> FALSE, saveTemps |-> FALSE, wrapped |-> {}, libcalls |-> {}, ltoLibs |-> <<>>,
   newInputHook |-> FALSE]

LtoJob(specs, libs) ==
  [Job(specs, libs) EXCEPT !.lto = "claim", !.mayCancel = TRUE,
                           !.answers = {Claims, Quiet, Hesitates, Errs}, !.loading = {Quiet}, !.compiling = {Quiet},
                           !.cleaning = {Quiet}, !.libcalls = {"p"}, !.ltoLibs = <<"r">>]

Static(n) == Spec1("lib", n, [Plain EXCEPT !.static = TRUE])
Exact(n, x) == Spec1("exact", <<n, x>>, Plain)
ImplicitScript(c) == Spec1("script", <<".", c, "t">>, Plain)
Bytes(c) == Spec1("bytes", Here(c), Plain)

Fg == A1("fg") :> "arfg"
Libs1 == Fg @@ (A1("h") :> "arh")

(* Inputs without IR: the searches, the archives, the scripts, the errors. *)
WalkJobs ==
  { Job(<<L("fg"), O("main"), L("h"), O("any")>>, Libs1),
    Job(<<L("f"), O("main"), L("fg")>>, (A1("f") :> "ara64") @@ (A2("f") :> "arfg") @@ Fg),
    Job(<<O("main"), L("f")>>, (So1("f") :> "sof") @@ (A1("f") :> "ara64")),
    Job(<<O("callf"), L("f"), L("fg")>>, (A1("f") :> "ara64") @@ Fg),
    Job(<<O("main"), L("f"), L("f")>>, (So1("f") :> "wide") @@ (A1("f") :> "ara64") @@ (A2("f") :> "arfg")),
    Job(<<O("main"), L("fg"), O("data")>>, A1("fg") :> "arbad"),
    Job(<<O("main"), L("fg"), L("h")>>, Fg @@ (A1("h") :> "arbad")),
    Job(<<O("a64"), O("main")>>, <<>>),
    Job(<<O("any"), O("wide")>>, <<>>), Job(<<O("main"), Spec1("file", So1("x"), Plain)>>, So1("x") :> "soa64"),
    Job(<<O("any"), O("empty"), O("a64"), L("f")>>, A1("f") :> "ara64"),
    Job(<<O("callf"), L("fg"), L("f")>>, (A1("fg") :> "arnone") @@ (A1("f") :> "torn")),
    Job(<<O("callf"), L("fg")>>, A1("fg") :> "armixed"),
    Job(<<O("main"), L("fg"), Whole("h")>>, (A1("fg") :> "thin") @@ (A1("h") :> "arh")),
    Job(<<O("main"), Lazy("any"), Lazy("callf"), L("f")>>, A1("f") :> "arfg"),
    Job(<<O("exec")>>, <<>>), Job(<<O("bcf")>>, <<>>), Job(<<O("slimf")>>, <<>>),
    Job(<<O("nothere")>>, <<>>), Job(<<L("nothere")>>, <<>>),
    [Job(<<O("main"), T("once"), T("once"), T("once"), T("twice")>>, A1("h") :> "arh") EXCEPT
       !.mayCancel = TRUE],
    Job(<<O("main"), T("once"), ImplicitScript("once")>>, A1("h") :> "ara64"),
    Job(<<T("self")>>, <<>>), Job(<<L("fg"), T("odd")>>, A1("fg") :> "arbad"),
    Job(<<T("lost")>>, <<>>),
    Job(<<O("callf"), Exact("fg", "a"), Static("f")>>, Fg @@ (So1("f") :> "sof")),
    [Job(<<O("callf"), AsNeeded("f"), AsNeeded("f")>>, So1("f") :> "sof") EXCEPT !.staticOutput = TRUE],
    [Job(<<O("main"), T("once")>>, (A1("h") :> "arh") @@ (<<"root", "once", "t">> :> "odd")) EXCEPT
       !.sysrootDirs = {"lib"}],
    [Job(<<O("main"), O("empty"), O("main"), Bytes("main")>>, <<>>) EXCEPT
       !.rewritten = Here("main") :> "callf"],
    [Job(<<O("callf"), L("fg")>>, A1("fg") :> "thin") EXCEPT !.mayCancel = TRUE,
       !.rewritten = <<"lib", "deff", "o">> :> "a64f"],
    Job(<<O("callf"), AsNeeded("f"), AsNeeded("g"), AsNeeded("h")>>,
        (So1("f") :> "sof") @@ (So1("g") :> "sog") @@ (So1("h") :> "soh")),
    Job(<<O("weakf"), AsNeeded("f"), L("g"), L("h")>>,
        (So1("f") :> "sof") @@ (So1("g") :> "sof2") @@ (A1("h") :> "arfg")),
    Job(<<O("weakf"), AsNeeded("h"), L("fg"), L("g")>>, (So1("h") :> "soh") @@ Fg @@ (So1("g") :> "sof2")) }

LtoJobs ==
  { LtoJob(<<O("main"), O("bcf"), L("fg")>>, Fg @@ (A1("r") :> "arh")),
    LtoJob(<<O("callf"), O("bcg"), L("ir")>>, A1("ir") :> "arir"),
    LtoJob(<<O("main"), L("slim"), L("h")>>, (A1("slim") :> "arslim") @@ (A1("h") :> "arh")),
    LtoJob(<<O("bcmain"), O("fatg"), AsNeeded("f")>>, (So1("f") :> "sof") @@ (A2("r") :> "ara64")),
    [LtoJob(<<O("main"), L("ir")>>, A1("ir") :> "arstale") EXCEPT !.answers = {Claims}],
    [LtoJob(<<O("bcmain"), AsNeeded("f"), AsNeeded("g")>>, (So1("f") :> "sofv") @@ (So1("g") :> "sog"))
       EXCEPT !.answers = {Claims}],
    [LtoJob(<<O("bcmain"), Lazy("bcf"), AsNeeded("g"), L("fg")>>,
            (So1("g") :> "sog") @@ Fg @@ (A1("r") :> "ara64") @@ (A2("r") :> "arh")) EXCEPT
       !.newInputHook = TRUE, !.exportAll = TRUE, !.answers = {Claims, Errs}, !.saveTemps = TRUE,
       !.loading = {Quiet, NoCleanUp}],
    [LtoJob(<<O("bcmain"), O("bcf"), O("fatg")>>, So1("r") :> "sog") EXCEPT !.relocatable = TRUE,
       !.answers = {Claims}],
    [LtoJob(<<O("bcmain"), O("bcf"), O("bcg")>>, So1("r") :> "soh") EXCEPT !.listed = {"f"},
       !.scriptLocal = {"g"}, !.wrapped = {"h"}, !.answers = {Claims}],
    [LtoJob(<<O("main"), O("bcf"), L("ir")>>, A1("ir") :> "arir") EXCEPT
       !.answers = {Claims, Fatal, Bad}, !.loading = {Quiet, NoCleanUp, Bad, Errs}, !.unloadable = TRUE,
       !.compiling = {Quiet, Errs, Fatal}, !.cleaning = {Quiet, Bad, Errs, Fatal},
       !.newInputHook = TRUE],
    [LtoJob(<<O("callf"), O("bcf"), L("none")>>, A1("none") :> "arnone") EXCEPT !.compiling = {Quiet, Errs}] }

MCJobs == WalkJobs \cup LtoJobs
=============================================================================
