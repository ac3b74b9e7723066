-------------------------------- MODULE Page --------------------------------
(***************************************************************************)
(* What the user chooses on the dashboard page and every panel follows:    *)
(* the namespace filter and the toggle for system namespaces               *)
(* (agent/static/js/01-init.js 36-48, 03-namespace.js, 06-drawers.js       *)
(* 18-34).  activeNs is what the panels read, nsFilter what the select     *)
(* shows.  The operators say how the choices change; the modules of the    *)
(* panels add what each change sends for.                                  *)
(***************************************************************************)
CONSTANTS
  Namespaces,   \* the cluster's namespaces
  System        \* sysNsList

AllNs == ""

\* The JSON object of a refused request, where the list of namespaces should be.
Refused == {"error"}

ASSUME PageAssumption ==
  System \subseteq Namespaces /\ AllNs \notin Namespaces /\ Refused \cap Namespaces = {}

Ns == Namespaces \cup {AllNs}

VARIABLES
  activeNs,        \* the namespace the panels ask for, AllNs for all
  nsFilter,        \* the option that the select shows
  showSys,         \* global-show-system
  allNamespaces    \* what loadNamespaces has brought

page == <<activeNs, nsFilter, showSys, allNamespaces>>

PageTypeOK ==
  /\ activeNs \in Ns /\ nsFilter \in Ns
  /\ showSys \in BOOLEAN
  /\ allNamespaces \in {{}, Namespaces, Refused}

PageInit ==
  /\ activeNs = AllNs /\ nsFilter = AllNs
  /\ showSys = FALSE
  /\ allNamespaces = {}

\* renderDropdowns: the options of a select, and the one it shows after they were
\* rebuilt while it showed `value'.
Offered(loaded, sys) == {AllNs} \cup {n \in loaded \cap Namespaces : sys \/ n \notin System}
Kept(value, offered) == IF value \in offered THEN value ELSE AllNs

\* The one request for the list, at startup.  It is not repeated, and an error that the
\* agent answers in JSON is stored like a list.
LoadNamespaces ==
  /\ allNamespaces = {}
  /\ allNamespaces' \in {Namespaces, Refused}
  /\ nsFilter' = Kept(nsFilter, Offered(allNamespaces', showSys))
  /\ UNCHANGED <<activeNs, showSys>>

ChooseNs ==
  /\ nsFilter' \in Offered(allNamespaces, showSys) \ {nsFilter}
  /\ activeNs' = nsFilter'
  /\ UNCHANGED <<showSys, allNamespaces>>

\* Mutant: only the select goes back to all namespaces.
ToggledNsKept(ns, sys) == ns

\* A system namespace is left when the toggle hides it.
ToggledNs(ns, sys) == IF ns \in System /\ ~sys THEN AllNs ELSE ns

ToggleSys ==
  /\ allNamespaces # Refused
  /\ showSys' = ~showSys
  /\ activeNs' = ToggledNs(activeNs, showSys')
  /\ nsFilter' = IF activeNs' # activeNs THEN AllNs
                 ELSE Kept(nsFilter, Offered(allNamespaces, showSys'))
  /\ UNCHANGED allNamespaces

\* renderDropdowns throws on the refused list, and takes the listeners that call it with
\* it: the checkbox changes, and nothing is reset or fetched.
ToggleUnheard ==
  /\ allNamespaces = Refused
  /\ showSys' = ~showSys
  /\ UNCHANGED <<activeNs, nsFilter, allNamespaces>>

\* What the select shows is what the panels are filtered by, and is one of its options:
\* no panel is ever narrowed to a namespace that the page has hidden.
FilterIsHonest ==
  /\ nsFilter = activeNs
  /\ activeNs \in Offered(allNamespaces, showSys)
=============================================================================
