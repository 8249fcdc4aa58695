----------------------------- MODULE ConanPromises -----------------------------
(***************************************************************************)
(* What users of the mods page of a Conan Exiles server are promised, in   *)
(* terms of what EGM and the game have stored (services/conan_workshop.py).*)
(* ConanMods says how it changes.                                          *)
(***************************************************************************)
EXTENDS ModsStore

CONSTANTS
  Published,  \* items of the Workshop
  PakOf       \* the name of the file in each version: it may change or not

VARIABLES
  listed,   \* mods.json
  modlist,  \* modlist.txt
  library,  \* the version in the download folder of each item
  asked,    \* history: what users last asked of each mod
  undone,   \* history: mods that an outdated save has changed since
  torn,     \* history: mods.json was saved last, without modlist.txt
  moved     \* history: mods whose files changed since modlist.txt was written, and
            \* that no page has found and noted since

None == 0

\* What the game should load, in the order of the page.
Enabled(list) ==
  LET sorted == Sorted(list) IN Only(sorted, {k \in DOMAIN sorted : sorted[k].on})
Pak(r) == IF library[r.id] # None THEN PakOf[library[r.id]] ELSE r.pak

\* The state of a mod in a list.
Entry(list, w) == CHOOSE r \in {list[k] : k \in DOMAIN list} : r.id = w
StateIn(list, w) ==
  IF w \notin IdsIn(list) THEN "out" ELSE IF Entry(list, w).on THEN "on" ELSE "off"

\* After every complete save the game will load the mods that are enabled, all of
\* them, in the order of the page, from files that are there: save for what was
\* downloaded since and has not been looked at (conan_workshop.py: _write_modlist).
GameLoadsTheList ==
  ~torn =>
    LET enabled == Enabled(listed)
    IN /\ Len(modlist) = Len(enabled)
       /\ \A k \in DOMAIN modlist :
            /\ modlist[k].id = enabled[k].id
            /\ modlist[k].id \notin moved => modlist[k].pak = Pak(enabled[k])

\* A file name that a version gives up does not come back.  If it does, the page
\* takes the files for those that it knows, and leaves modlist.txt as it is.
NamesDoNotReturn ==
  \A u, v, x \in DOMAIN PakOf : u <= v /\ v <= x /\ PakOf[u] = PakOf[x] => PakOf[v] = PakOf[u]

\* A mod is in the state that was last asked for, unless a page or a check that
\* had read the list before saved it afterwards (conan_workshop.py: install,
\* with_update_status, check_updates).
ChoicesHold == \A w \in Published \ undone : StateIn(listed, w) = asked[w]
================================================================================
