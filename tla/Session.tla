-------------------------------- MODULE Session --------------------------------
(* The life of a shell's variables and of its directory: the list is filled from
   envp (environment/init_env.c, add_env_defaults.c), then export, unset and cd
   are run (builtin/builtin_export.c, unset.c, cd.c), directories are removed by
   other programs, and shells are started from the shell, which the model then
   follows. Any allocation the code checks may fail.

   A name is one symbol; all other texts are sequences of characters. A directory
   is the sequence of the names that lead to it; there are no links.           *)
EXTENDS Environment, Texts

CONSTANTS
    Inherited,      \* the environments a shell may be started with
    Directories,    \* those there are in the beginning
    Commands,       \* what is run: records [name, args]
    DefaultPath,
    MaxCommands,    \* bound: the number of commands that are run
    CdTexts,        \* paths, values of PATH and arguments of exit, for the
    PathTexts,      \* operators of Texts to be compared with what they are to be
    ExitTexts

\* Every name on a path leads to one of the directories there.
Leads(from, path, there) ==
    LET way == Way(from, path)
    IN \A k \in DOMAIN path :
          IsEnd(CharAt(path, k + 1)) /\ way[k].name \notin {<< >>, <<".">>, <<".", ".">>}
              => Reached(way[k]) \in there

\* The entries of an environment and the words of a command are texts; the name
\* getcwd gives a directory leads to it.
ASSUME SessionAssumption ==
    /\ Names \subseteq Chars \ {"="}
    /\ << >> \in Directories
    /\ \A d \in Directories : /\ d \in Seq(Seq(Chars))
                             /\ PathTo(d) \in Seq(Chars)
                             /\ DirOf(<< >>, PathTo(d)) = d
                             /\ Leads(<< >>, PathTo(d), Directories)
    /\ \A e \in Inherited : e \in Seq(Seq(Chars))
    /\ \A c \in Commands : /\ c.name \in {"export", "unset", "cd"}
                          /\ c.args \in Seq(Seq(Chars))
    /\ DefaultPath \in Seq(Chars) \ {<< >>}
    /\ \A t \in CdTexts \cup PathTexts \cup ExitTexts : t \in Seq(Chars)
    /\ MaxCommands \in Nat

VARIABLES
    env,            \* t_ctx.env
    envp,           \* the entries that init_env has not seen yet
    step,           \* what the shell is doing
    args,           \* the arguments of export or unset that are left
    status,
    cwd,            \* the directory of the process
    dirs,           \* the directories there are
    n,              \* counts commands
    told,           \* history: who has set PWD last was the shell, or nobody and it
                    \* was right in the beginning
    clean,          \* history: envp names nothing twice and PWD, PATH and SHLVL,
                    \* when they are there, have values
    parent          \* history: what the shell that started this one could find

vars == <<env, envp, step, args, status, cwd, dirs, n, told, clean, parent>>

NoParent == [v \in Names |-> Absent]

-------------------------------------------------------------------------------

KeyOf(s) == FtSplitKeyValue(s).key

\* The value ft_split_key_value returns: NULL when there is no =.
ValueOf(s) ==
    IF FtSplitKeyValue(s).given THEN Str(FtSplitKeyValue(s).val) ELSE NULL

\* The value of a name in envp: the first one counts.
Given(list, name) ==
    LET at == {i \in DOMAIN list : KeyOf(list[i]) = <<name>>}
    IN IF at = {} THEN NULL ELSE ValueOf(list[Min(at)])

Clean(list) ==
    /\ \A i, j \in DOMAIN list : KeyOf(list[i]) = KeyOf(list[j]) => i = j
    /\ \A v \in {PWD, PATH, SHLVL} : \A i \in DOMAIN list :
          KeyOf(list[i]) = <<v>> => ~IsEmptyStr(ValueOf(list[i]))

\* An absolute path that leads to a directory.
NamesDir(path, dir) ==
    /\ ~path.null /\ IsAbsolute(path.text)
    /\ DirOf(<< >>, path.text) = dir

RightAtFirst(pwd) == NamesDir(pwd, cwd) /\ Leads(<< >>, pwd.text, Directories)

Init ==
    /\ env = << >>
    /\ envp \in Inherited
    /\ step = "load"
    /\ args = << >>
    /\ status = 0
    /\ cwd \in Directories
    /\ dirs = Directories
    /\ n = 0
    /\ told = RightAtFirst(Given(envp, PWD))
    /\ clean = Clean(envp)
    /\ parent = NoParent

\* A slip for IsValidVarName: only an empty name is not valid.
IsValidVarNameAny(key) == Len(key) = 1

IsValidVarName(key) == \E v \in Names : key = <<v>>

\* init_env's loop: an entry whose name is not valid is left out.
LoadEntry ==
    /\ step = "load" /\ envp # << >>
    /\ LET key == KeyOf(Head(envp))
       IN env' = IF IsValidVarName(key)
                 THEN EnvAdd(env, key[1], ValueOf(Head(envp))) ELSE env
    /\ envp' = Tail(envp)
    /\ UNCHANGED <<step, args, status, cwd, dirs, n, told, clean, parent>>

Getcwd == IF cwd \in dirs THEN Str(PathTo(cwd)) ELSE NULL

AddPwd(l) == IF IsEmptyStr(EnvGet(l, PWD)) THEN EnvAdd(l, PWD, Getcwd) ELSE l

AddPath(l) ==
    IF IsEmptyStr(EnvGet(l, PATH)) THEN EnvAdd(l, PATH, Str(DefaultPath)) ELSE l

IncreaseShlvl(l) ==
    EnvUpdate(l, SHLVL, Str(FtItoa(FtAtoi(EnvGet(l, SHLVL).text) + 1)))

AddShlvl(l) ==
    IF IsEmptyStr(EnvGet(l, SHLVL)) THEN EnvAdd(l, SHLVL, Str(<<"1">>))
    ELSE IncreaseShlvl(l)

\* add_env_defaults; a directory that is gone has no name to give PWD.
AddEnvDefaults ==
    /\ step = "load" /\ envp = << >>
    /\ IsEmptyStr(EnvGet(env, PWD)) => ~Getcwd.null
    /\ env' = AddShlvl(AddPath(AddPwd(env)))
    /\ told' = (told \/ IsEmptyStr(EnvGet(env, PWD)))
    /\ step' = "ready"
    /\ UNCHANGED <<envp, args, status, cwd, dirs, n, clean, parent>>

\* init_env or msh_exit, when memory is short or there is no name for PWD.
Exit ==
    /\ step \in {"load", "export", "cd"}
    /\ step' = "exited"
    /\ UNCHANGED <<env, envp, args, status, cwd, dirs, n, told, clean, parent>>

-------------------------------------------------------------------------------
(* A command is read; export and unset take their arguments one after another    *)

RunCommand ==
    /\ step = "ready" /\ n < MaxCommands
    /\ \E c \in Commands : step' = c.name /\ args' = c.args
    /\ status' = 0
    /\ n' = n + 1
    /\ parent' = NoParent
    /\ UNCHANGED <<env, envp, cwd, dirs, told, clean>>

Refused(key) == ~IsValidVarName(key) \/ key = <<SHLVL>>

\* add_args_to_env: an argument that is refused is reported and the next is taken;
\* one that cannot be added ends the command.
ExportArg ==
    /\ step = "export" /\ args # << >>
    /\ LET key == KeyOf(Head(args))
           val == ValueOf(Head(args))
       IN \/ /\ Refused(key)
             /\ status' = 1
             /\ args' = Tail(args)
             /\ UNCHANGED <<env, told>>
          \/ /\ ~Refused(key)
             /\ env' = EnvUpdate(env, key[1], val)
             /\ told' = (told /\ key # <<PWD>>)
             /\ args' = Tail(args)
             /\ UNCHANGED status
          \/ /\ ~Refused(key) /\ Positions(env, key[1]) = {}
             /\ status' = 1
             /\ args' = << >>
             /\ UNCHANGED <<env, told>>
    /\ UNCHANGED <<envp, step, cwd, dirs, n, clean, parent>>

UnsetArg ==
    /\ step = "unset" /\ args # << >>
    /\ LET key == Head(args)
       IN /\ env' = IF key # <<SHLVL>> /\ IsValidVarName(key)
                    THEN EnvDelete(env, key[1]) ELSE env
          /\ told' = (told /\ key # <<PWD>>)
    /\ args' = Tail(args)
    /\ UNCHANGED <<envp, step, status, cwd, dirs, n, clean, parent>>

EndLoop ==
    /\ step \in {"export", "unset"} /\ args = << >>
    /\ step' = "ready"
    /\ UNCHANGED <<env, envp, args, status, cwd, dirs, n, told, clean, parent>>

-------------------------------------------------------------------------------
(* cd                                                                           *)

\* chdir(path) succeeds: the path leads to a directory, and every name of it to
\* one that is there.
CanEnter(from, path) ==
    /\ path # << >> /\ DirOf(from, path) \in Directories
    /\ Leads(from, path, dirs)

OldPwd == EnvGet(env, PWD)

\* A slip for Remembered: OLDPWD is left alone.
RememberedNot == env

\* A PWD without a value is not remembered.
Remembered ==
    IF OldPwd.null THEN env ELSE EnvUpdate(env, OLDPWD, OldPwd)

Stay(s) ==
    /\ status' = s
    /\ step' = "ready"
    /\ UNCHANGED <<env, cwd, told>>

\* A slip for Return: the shell stays where chdir has led it.
ReturnNot(to) == to

\* chdir(oldpwd), whose result is not looked at.
Return(to) ==
    IF ~OldPwd.null /\ CanEnter(to, OldPwd.text) THEN DirOf(to, OldPwd.text)
    ELSE to

\* A slip for CdPath: PWD is set first, and stays so when OLDPWD cannot be set.
CdPathSwapped(path) ==
    LET to == DirOf(cwd, path)
        fresh == EnvUpdate(env, PWD, Str(path))
    IN \/ ~CanEnter(cwd, path) /\ Stay(1)
       \/ /\ CanEnter(cwd, path)
          /\ env' = IF OldPwd.null THEN fresh ELSE EnvUpdate(fresh, OLDPWD, OldPwd)
          /\ cwd' = to
          /\ status' = 0
          /\ told' = TRUE
          /\ step' = "ready"
       \/ /\ CanEnter(cwd, path)
          /\ \/ env' = env /\ UNCHANGED told
             \/ env' = fresh /\ told' = TRUE
          /\ cwd' = Return(to)
          /\ status' = 1
          /\ step' = "ready"

\* cd_path: chdir, then the two variables, either of which memory may not be
\* enough for.
CdPath(path) ==
    LET to == DirOf(cwd, path)
    IN \/ ~CanEnter(cwd, path) /\ Stay(1)
       \/ /\ CanEnter(cwd, path)
          /\ env' = EnvUpdate(Remembered, PWD, Str(path))
          /\ cwd' = to
          /\ status' = 0
          /\ told' = TRUE
          /\ step' = "ready"
       \/ /\ CanEnter(cwd, path)
          /\ env' \in {env, Remembered}
          /\ cwd' = Return(to)
          /\ status' = 1
          /\ UNCHANGED told
          /\ step' = "ready"

CdVariable(name) ==
    IF IsEmptyStr(EnvGet(env, name)) THEN Stay(1)
    ELSE CdPath(EnvGet(env, name).text)

GetPwd == IF OldPwd.null THEN Getcwd ELSE OldPwd

CdDir(dir) ==
    IF ~IsAbsolute(dir) /\ GetPwd.null THEN Stay(1)
    ELSE LET curpath == IF IsAbsolute(dir) THEN dir
                        ELSE GetPwd.text \o <<"/">> \o dir
             form == GetPathCanonicalForm(curpath)
         IN \/ form.bad = "no" /\ CdPath(form.text)
            \/ form.bad = "none" /\ Stay(1)
            \/ /\ form.bad = "fault"
               /\ step' = "crashed"
               /\ UNCHANGED <<env, cwd, status, told>>

Cd ==
    /\ step = "cd"
    /\ IF Len(args) > 1 THEN Stay(1)
       ELSE IF args = << >> \/ args = << << >> >> THEN CdVariable(HOME)
       ELSE IF args = << <<"-">> >> THEN CdVariable(OLDPWD)
       ELSE CdDir(args[1])
    /\ args' = << >>
    /\ UNCHANGED <<envp, dirs, n, clean, parent>>

-------------------------------------------------------------------------------
(* Other programs                                                               *)

\* The shell is run from the shell: env_to_envp, then init_env again.
Nest ==
    /\ step = "ready" /\ n < MaxCommands
    /\ envp' = EnvToEnvp(env)
    /\ env' = << >>
    /\ step' = "load"
    /\ args' = << >>
    /\ status' = 0
    /\ n' = n + 1
    /\ clean' = Clean(envp')
    /\ parent' = View(env)
    /\ UNCHANGED <<cwd, dirs, told>>

Rmdir ==
    /\ step = "ready" /\ n < MaxCommands
    /\ \E d \in dirs \ {<< >>} :
          /\ \A e \in dirs : e = << >> \/ Front(e) # d
          /\ dirs' = dirs \ {d}
    /\ n' = n + 1
    /\ args' = << >>
    /\ status' = 0
    /\ UNCHANGED <<env, envp, step, cwd, told, clean, parent>>

Next ==
    \/ LoadEntry \/ AddEnvDefaults \/ Exit
    \/ RunCommand
    \/ ExportArg \/ UnsetArg \/ EndLoop
    \/ Cd
    \/ Nest \/ Rmdir

Spec == Init /\ [][Next]_vars

-------------------------------------------------------------------------------

TypeOK ==
    /\ \A i \in DOMAIN env :
          /\ DOMAIN env[i] = {"key", "val"}
          /\ env[i].key \in Names
    /\ step \in {"load", "ready", "export", "unset", "cd", "exited", "crashed"}
    /\ status \in {0, 1}
    /\ << >> \in dirs /\ dirs \subseteq Directories
    /\ cwd \in Directories
    /\ n \in 0..MaxCommands
    /\ told \in BOOLEAN /\ clean \in BOOLEAN
    /\ DOMAIN parent = Names

\* No operation puts a name into the list that is there already, although only
\* env_update looks: a shell whose environment is clean keeps every name once, so
\* that unset leaves none behind and a child is given each of them once.
UniqueNames == clean => NamesOnce(env)

\* A path that directories led along in the beginning, of which one is gone.
Removed(path) == Leads(<< >>, path, Directories) /\ ~Leads(<< >>, path, dirs)

\* While who has set PWD last was the shell, an absolute PWD names the directory of
\* the process, or a directory on it has been removed: then a cd that fails after
\* chdir cannot go back, which cd_path does not notice. So a PWD that is wrong leads
\* nowhere, and never to another directory. (A relative HOME makes PWD relative.)
PwdNamesCwd ==
    told /\ step # "load" /\ ~OldPwd.null /\ IsAbsolute(OldPwd.text)
        => NamesDir(OldPwd, cwd) \/ Removed(OldPwd.text)

Honest == told /\ NamesDir(OldPwd, cwd)

\* Where a cd with these arguments is to go.
Destination ==
    LET Value(name) == EnvGet(env, name).text
    IN DirOf(cwd, CASE args = << >> \/ args = << << >> >> -> Value(HOME)
                    [] args = << <<"-">> >> -> Value(OLDPWD)
                    [] OTHER -> args[1])

\* The path cd_dir makes the canonical form of, when it does.
Curpath == IF IsAbsolute(args[1]) THEN args[1] ELSE GetPwd.text \o <<"/">> \o args[1]

Misread == args # << >> /\ (DotsMisread(Curpath) \/ SlashKept(Curpath))

\* After a cd that succeeds an absolute PWD names the directory of the process,
\* right or wrong before. From a directory PWD names it ends where its argument
\* leads, resolved by the text as by the kernel, and OLDPWD names the directory
\* before. (Misread: names with two dots in a row or one at the end, and a slash too
\* many before a .. that comes later.)
CdLands ==
    [][ Cd /\ status' = 0 /\ step' = "ready"
        => /\ IsAbsolute(EnvGet(env', PWD).text) => NamesDir(EnvGet(env', PWD), cwd')
           /\ Honest /\ ~Misread => /\ cwd' = Destination
                                   /\ NamesDir(EnvGet(env', OLDPWD), cwd) ]_vars

\* A cd that fails, also after chdir, leaves PWD as it was; it leaves the directory
\* as it was if PWD named it, unless PWD cannot be followed any more: then the
\* shell may be left where cd was to go, and nowhere else.
CdAtomic ==
    [][ Cd /\ status' = 1
        => /\ EnvGet(env', PWD) = EnvGet(env, PWD)
           /\ Honest => \/ cwd' = cwd
                       \/ /\ ~CanEnter(cwd, OldPwd.text)
                          /\ Misread \/ cwd' = Destination ]_vars

\* What a shell started from a shell finds: the values its parent could find, the
\* empty one for a name without a value, its own SHLVL and what was missing.
Passed(v) ==
    CASE v = PWD /\ parent[v] = Absent -> Present(Str(PathTo(cwd)))
      [] v = PATH /\ parent[v] = Absent -> Present(Str(DefaultPath))
      [] v = SHLVL -> Present(Str(FtItoa(FtAtoi(parent[v].val.text) + 1)))
      [] parent[v].there /\ parent[v].val.null -> Present(Str(<< >>))
      [] OTHER -> parent[v]

NestedKeeps ==
    step = "ready" /\ clean /\ parent # NoParent =>
        \A v \in Names : View(env)[v] = Passed(v)

\* The variables are the map Store describes; there is none before and after.
Visible == IF clean /\ step \notin {"load", "exited"} THEN View(env) ELSE NoParent

Abstract == INSTANCE Store WITH
    Pwd <- PWD, OldPwd <- OLDPWD, Path <- PATH, Shlvl <- SHLVL, store <- Visible

\* Export, unset and cd change the names a clean environment shows only in the
\* ways of Store, however the list is made: SHLVL never after the start, one name
\* at a time except by cd, a declaration never over a value.
ImplementsStore == Abstract!Spec

-------------------------------------------------------------------------------
(* What the builtins make of texts, for all of some texts                       *)

AtStart == step = "load" /\ n = 0 /\ envp = << >>

\* The canonical form cd gives a path, written in one pass over it and cut where ..
\* is met, leads where the path does, and is never written outside its buffer.
CanonicalAsSpecified == AtStart => \A p \in CdTexts : CanonicalFormIsRight(p)

\* What can be found under a name in a directory of PATH.
Kinds == {"no", "directory", "plain", "exec"}

\* A command is searched in the directories of PATH in their order, an empty
\* element being the current one: the first executable file, else the first file.
SearchAsSpecified ==
    AtStart => \A p \in PathTexts :
                  \A kind \in [ToSet(FtSplitWithEmpty(p, ":")) \cup {<< >>} -> Kinds] :
                      PathnameIsRight(p, kind)

\* exit takes for a number just blanks, at most one sign, digits and blanks.
NumbersAsSpecified == AtStart => \A s \in ExitTexts : NumberIsRight(s)
================================================================================
