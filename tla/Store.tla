--------------------------------- MODULE Store ---------------------------------
(* What the shell's variables promise, as a map from names to values: nothing but
   export, unset and cd changes them, each in a way of its own, and SHLVL is set
   once for each shell.                                                         *)

CONSTANTS Names, Pwd, OldPwd, Path, Shlvl

VARIABLE store      \* Names -> [there, val]

Absent == [there |-> FALSE]
Declared(x) == x.there /\ x.val.null
HasValue(x) == x.there /\ ~x.val.null

Empty == [n \in Names |-> Absent]

Init == store = Empty

\* A shell begins with whatever it inherits, and with what every shell has.
Start ==
    /\ store = Empty
    /\ DOMAIN store' = Names
    /\ \A n \in {Pwd, Path, Shlvl} : HasValue(store'[n])

OnlyChanges(n) == store' = [store EXCEPT ![n] = store'[n]]

Assign(n) ==
    /\ n # Shlvl
    /\ OnlyChanges(n)
    /\ HasValue(store'[n])

\* A name that is there already keeps its value.
Declare(n) ==
    /\ n # Shlvl
    /\ store[n] = Absent
    /\ OnlyChanges(n)
    /\ Declared(store'[n])

Remove(n) ==
    /\ n # Shlvl
    /\ OnlyChanges(n)
    /\ store'[n] = Absent

\* A change of directory: the old one is remembered if it was known.
Move ==
    /\ HasValue(store[Pwd])
    /\ HasValue(store'[Pwd])
    /\ store' = [store EXCEPT ![Pwd] = store'[Pwd], ![OldPwd] = store[Pwd]]

Quit == store' = Empty

Running == store # Empty

Next ==
    \/ Start
    \/ Running /\ (Move \/ \E n \in Names : Assign(n) \/ Declare(n) \/ Remove(n))
    \/ Quit

Spec == Init /\ [][Next]_store
================================================================================
