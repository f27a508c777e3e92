----------------------------- MODULE MCSession -----------------------------
EXTENDS Session

MCProcesses == {"first", "second"}
MCOlder     == <<[id |-> 12, made |-> 2, pinned |-> FALSE], [id |-> 1, made |-> 1, pinned |-> TRUE]>>

Command(do, refs) == [do |-> do, refs |-> refs, yes |-> FALSE, all |-> FALSE, on |-> TRUE]

Listed ==
  <<Command("copy", <<12>>), Command("paste", <<12>>), Command("paste", <<1>>), Command("reveal", <<12>>),
    Command("rm", <<1, 13, 1>>),
    [Command("pin", <<1>>) EXCEPT !.on = FALSE], Command("pause", << >>),
    [Command("clear", << >>) EXCEPT !.yes = TRUE], [Command("clear", << >>) EXCEPT !.all = TRUE]>>

MCCommands == Range(Listed)

(* The two processes are alike, and whatever is asked of one is asked of   *)
(* the other: one of the two ways to hand them a pair of commands will do. *)
MCInit ==
  /\ Init
  /\ \E i, j \in DOMAIN Listed : i <= j /\ does["first"] = Listed[i] /\ does["second"] = Listed[j]

MCSpec == MCInit /\ [][Next]_vars /\ Fairness

Config == INSTANCE Settings
MCModifiers == Config!ModifierKeysOf(CHOOSE c \in Config!Chords(Config!DefaultShortcut) : TRUE)

(* resolve_all names each entry once, and in the order they were first     *)
(* named.                                                                  *)
ASSUME EachIsNamedOnce ==
  \A ids \in SUBSET {1, 2, 12} : \A refs \in [1..3 -> {0, 1, 2, 12}] :
    (\A i \in 1..3 : Resolves(refs[i], ids)) =>
      LET all   == ResolveAll(refs, ids)
          at(k) == CHOOSE i \in 1..3 : /\ Resolve(refs[i], ids) = all[k]
                                       /\ \A j \in 1..(i - 1) : Resolve(refs[j], ids) # all[k]
      IN  /\ {all[k] : k \in DOMAIN all} = {Resolve(refs[i], ids) : i \in 1..3}
          /\ \A k, l \in DOMAIN all : k < l => all[k] # all[l] /\ at(k) < at(l)
=============================================================================
