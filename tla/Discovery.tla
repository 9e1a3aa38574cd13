----------------------------- MODULE Discovery -----------------------------
(***************************************************************************)
(* How pubmux finds the storages it publishes (discoveryLoop of            *)
(* pubmux/main.go): each path of the command line is walked with its       *)
(* subdirectories, then the path itself is watched, and after the last     *)
(* path the loop takes one event after another from the watcher            *)
(* (fsnotify's inotify.go), whose goroutine reads them from the system.    *)
(* Meanwhile writers make storages, a file appears and is then given its   *)
(* size, and remove them.  A file moved in counts as made, and one moved   *)
(* away as removed; a change of mode is only logged.                       *)
(***************************************************************************)
EXTENDS Sequences, Naturals

CONSTANTS
    Paths,      \* the command line's paths, in order, each once
    Subs,       \* the subdirectories of each path
    Files,      \* files that match the patterns: [dir, name]
    EventLimit  \* of the system's queue of events

VARIABLES
    fpc, at,    \* the loop: "walk", "note", "select", "ended"; its path
    walk, todo, \* the directories still to be listed, and the files to be visited
    watched,    \* the directories the system watches
    paths,      \* those of them the watcher has noted
    events,     \* the system's queue
    offered,    \* what the watcher's goroutine offers on the channel, if anything
    present,    \* each file: "none", "made", "sized", "gone"
    started,    \* the names startIfNeeded was called with: keys of publishers
    (* history, for the properties only *)
    walked,     \* the directories the walk is through with
    gap,        \* the files that were overlooked and have caused no event since
    lost        \* an event found the queue full

walking == <<fpc, at, walk, todo, watched, paths, walked>>
vars    == <<walking, events, offered, present, started, gap, lost>>

Init ==
    /\ fpc = "walk" /\ at = 1 /\ walk = {Paths[1]} /\ todo = {}
    /\ watched = {} /\ paths = {} /\ events = <<>> /\ offered = <<>>
    /\ present = [f \in Files |-> "none"] /\ started = {}
    /\ walked = {} /\ gap = {} /\ lost = FALSE

Exists(f) == present[f] \in {"made", "sized"}

-----------------------------------------------------------------------------
(* What a writer does to a file in a watched directory is an event, unless *)
(* the system's queue is full; what it writes through a mapping is none.   *)
Notify(f, op) ==
    IF f.dir \in watched
    THEN /\ events' = IF Len(events) < EventLimit
                      THEN Append(events, [file |-> f, op |-> op]) ELSE events
         /\ lost' = (lost \/ Len(events) >= EventLimit)
         /\ gap' = gap \ {f}
    ELSE /\ gap' = IF op = "create" /\ f.dir \in walked THEN gap \cup {f} ELSE gap
         /\ UNCHANGED <<events, lost>>

Becomes(f, state, op) ==
    /\ present' = [present EXCEPT ![f] = state] /\ Notify(f, op)
    /\ UNCHANGED <<walking, offered, started>>

Make(f)   == present[f] = "none" /\ Becomes(f, "made", "create")
Resize(f) == present[f] = "made" /\ Becomes(f, "sized", "write")
Remove(f) == Exists(f) /\ Becomes(f, "gone", "remove")

-----------------------------------------------------------------------------
(* filepath.Walk lists a directory *)
List(d) ==
    /\ d \in walk
    /\ walk' = (walk \ {d}) \cup (IF d = Paths[at] THEN Subs[d] ELSE {})
    /\ todo' = todo \cup {f \in Files : f.dir = d /\ Exists(f)}
    /\ walked' = walked \cup {d}
    /\ UNCHANGED <<fpc, at, watched, paths, events, offered, present, started, gap, lost>>

(* and calls the walk function for what it found, *)
Visit(f) ==
    /\ f \in todo /\ Exists(f)
    /\ todo' = todo \ {f} /\ started' = started \cup {f.name}
    /\ UNCHANGED <<fpc, at, walk, watched, paths, events, offered, present, walked, gap, lost>>

(* which returns the error of a directory that cannot be listed, or of a   *)
(* file that is no longer there: that ends the walk of the whole path, and *)
(* nobody looks at the result.                                             *)
Abort ==
    /\ walk # {} \/ \E f \in todo : ~Exists(f)
    /\ LET skipped == ({Paths[at]} \cup Subs[Paths[at]]) \ walked
       IN  /\ walked' = walked \cup skipped
           /\ gap' = gap \cup todo \cup {f \in Files : f.dir \in skipped /\ Exists(f)}
    /\ walk' = {} /\ todo' = {}
    /\ UNCHANGED <<fpc, at, watched, paths, events, offered, present, started, lost>>

(* watcher.Add: the system watches the path, and then the watcher notes    *)
(* whose watch it is.                                                      *)
AddWatch ==
    /\ fpc = "walk" /\ walk = {} /\ todo = {}
    /\ watched' = watched \cup {Paths[at]} /\ fpc' = "note"
    /\ UNCHANGED <<at, walk, todo, paths, events, offered, present, started, walked, gap, lost>>

NoteWatch ==
    /\ fpc = "note" /\ paths' = paths \cup {Paths[at]}
    /\ IF at < Len(Paths) THEN fpc' = "walk" /\ at' = at + 1 /\ walk' = {Paths[at + 1]}
       ELSE fpc' = "select" /\ UNCHANGED <<at, walk>>
    /\ UNCHANGED <<todo, watched, events, offered, present, started, walked, gap, lost>>

(* A path that cannot be watched, or does not exist, ends pubmux. *)
AddFails ==
    /\ fpc = "walk" /\ walk = {} /\ todo = {} /\ fpc' = "ended"
    /\ UNCHANGED <<at, walk, todo, watched, paths, events, offered, present, started, walked,
                   gap, lost>>

(* The loop starts a publisher for what was made or written, and only logs *)
(* the rest.                                                               *)
TakeEvent ==
    /\ fpc = "select" /\ offered # <<>> /\ offered' = <<>>
    /\ LET e == offered[1]
       IN  started' = IF e.op = "remove" THEN started ELSE started \cup {e.file.name}
    /\ UNCHANGED <<walking, events, present, gap, lost>>

Loop ==
    \/ \E d \in walk : List(d)
    \/ \E f \in todo : Visit(f)
    \/ Abort \/ AddWatch \/ NoteWatch \/ AddFails \/ TakeEvent

-----------------------------------------------------------------------------
(* ignoreLinux: an event of a file that is not there is dropped; so is one *)
(* of a watch that is not noted yet, whose file has no directory then.     *)
Ignored(e) == e.op # "remove" /\ ~(Exists(e.file) /\ e.file.dir \in paths)

(* readEvents: what is not ignored is offered to the loop. *)
ReadEvent ==
    /\ offered = <<>> /\ events # <<>> /\ fpc # "ended"
    /\ LET e == Head(events)
       IN  /\ offered' = IF Ignored(e) THEN <<>> ELSE <<e>>
           /\ gap' = IF Ignored(e) THEN gap \cup {e.file} ELSE gap
    /\ events' = Tail(events)
    /\ UNCHANGED <<walking, present, started, lost>>

Next == Loop \/ ReadEvent \/ \E f \in Files : Make(f) \/ Resize(f) \/ Remove(f)

-----------------------------------------------------------------------------
(* A storage that stays gets a publisher of its name.  Only these are      *)
(* overlooked: one that appeared between the listing of its directory and  *)
(* the watch on it, also one in a subdirectory, which is never watched;    *)
(* one that the walk had not come to when it was aborted, by an error or   *)
(* by another file that vanished under it; one whose event was read before *)
(* the watcher had noted the watch; and those that an event was lost for.  *)
(* Of two files with one name in different directories only the first is   *)
(* published (filepath.Walk, watcher.Add, ignoreLinux and startIfNeeded).  *)
Discovered ==
    \A f \in Files :
        present[f] = "sized" ~>
            \/ f.name \in started \/ f \in gap \/ lost
            \/ fpc = "ended" \/ present[f] = "gone"
=============================================================================
