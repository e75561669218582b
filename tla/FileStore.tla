----------------------------- MODULE FileStore -----------------------------
(***************************************************************************)
(* What the files promise, whatever sectors and tables they are kept in: a *)
(* file that was made stays as it is, whatever is called and whenever the  *)
(* power fails, and who asks for a name is given a file of that name: the  *)
(* whole text if it is loaded, its first cluster if it is shown.  Between  *)
(* its entry and its text a file may be found and hold anything; if the    *)
(* power fails then, so it stays.  A command whose descriptor another task *)
(* closed may show any file.  Nothing is promised any more once two        *)
(* creations, or two transfers, met.                                       *)
(***************************************************************************)
EXTENDS Integers, Sequences

CONSTANTS
  Tasks, Names, Contents, Places,
  Nothing       (* the content of a file for which the disk had no room    *)

VARIABLES
  named,   (* the name at each place where one was entered                 *)
  text,    (* the text at each place where a file was made                 *)
  asked,   (* what each task has called for, and with what                 *)
  answer,  (* what it was given last                                       *)
  robbed,  (* whose file another task closed: outside the store's control  *)
  spoiled

storeVars == <<named, text, asked, answer, spoiled>>

Calls ==
  [call : {"create", "open", "load", "cat", "casm"}, name : Names,
   content : Contents \union {Nothing}]
Quiet == [call |-> "none", name |-> "end", content |-> Nothing]

(* f, and e at p.                                                          *)
With(f, p, e) == [q \in DOMAIN f \union {p} |-> IF q = p THEN e ELSE f[q]]

StoreInit ==
  /\ DOMAIN named \subseteq Places /\ DOMAIN text \subseteq DOMAIN named
  /\ asked = [t \in Tasks |-> Quiet] /\ answer = [t \in Tasks |-> <<>>]
  /\ spoiled = FALSE

Ask(t) ==
  /\ asked[t] = Quiet /\ asked'[t] \in Calls /\ answer'[t] = <<>>
  /\ \A u \in Tasks \ {t} : asked'[u] = asked[u] /\ answer'[u] = answer[u]
  /\ UNCHANGED <<named, text>>

Over(t) ==
  /\ asked[t] # Quiet /\ asked'[t] = Quiet
  /\ \A u \in Tasks \ {t} : asked'[u] = asked[u]

(* A file gets its name and later its text, if there is a place for it.    *)
Enter(t) ==
  /\ asked[t].call = "create"
  /\ \E p \in (DOMAIN named' \ DOMAIN named) \intersect Places :
       named' = With(named, p, asked[t].name)
  /\ UNCHANGED <<text, asked, answer>>

Make(t) ==
  /\ asked[t].call = "create" /\ Over(t)
  /\ \E p \in (DOMAIN text' \ DOMAIN text) \intersect DOMAIN named :
       /\ named[p] = asked[t].name
       /\ \E c \in {asked[t].content, Nothing} : text' = With(text, p, <<c>>)
  /\ UNCHANGED <<named, answer>>

Refuse(t) ==
  /\ asked[t].call = "create" /\ Over(t)
  /\ UNCHANGED <<named, text, answer>>

(* What a call may give: nothing if no such name is found.  casm takes the *)
(* keyboard for its file, and of clusters there was no room for nobody     *)
(* knows what they hold.                                                   *)
Agrees(given, wanted) ==
  /\ Len(given) = Len(wanted)
  /\ \A j \in 1 .. Len(wanted) : wanted[j] \in {given[j], Nothing}

Gives(q, given, elsewhere) ==
  \/ given = <<>> \/ q.call = "casm"
  \/ \E p \in DOMAIN named :
       /\ named[p] = q.name \/ (elsewhere /\ q.call = "cat")
       /\ p \in DOMAIN text =>
            Agrees(given, IF q.call = "load" THEN text[p] ELSE <<text[p][1]>>)

Answer(t) ==
  /\ asked[t].call # "create" /\ Over(t)
  /\ Gives(asked[t], answer'[t], t \in robbed)
  /\ \A u \in Tasks \ {t} : answer'[u] = answer[u]
  /\ UNCHANGED <<named, text>>

PowerFails ==
  /\ asked' = [t \in Tasks |-> Quiet] /\ answer' = [t \in Tasks |-> <<>>]
  /\ UNCHANGED <<named, text>>

StoreNext ==
  \/ spoiled'
  \/ \E t \in Tasks : Ask(t) \/ Enter(t) \/ Make(t) \/ Refuse(t) \/ Answer(t)
  \/ PowerFails

StoreSpec == StoreInit /\ [][StoreNext]_storeVars
=============================================================================
