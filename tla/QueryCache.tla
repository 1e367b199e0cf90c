----------------------------- MODULE QueryCache -------------------------------
(***************************************************************************)
(* One entry of the web application's query cache, as @tanstack/react-query *)
(* keeps it (query-core 5.101, apps/web/package-lock.json) with the options *)
(* of apps/web/src/main.tsx: data counts as fresh for 30 seconds, a failed  *)
(* request is tried once more.  The library is not part of the repository;  *)
(* the pages rely on what is stated here.  Pure definitions.                *)
(*                                                                          *)
(* The data of an entry is the version of what it shows, 0 when there is    *)
(* none.  A request is sent, answered (what the API said is then fixed) and *)
(* lands later; there is at most one per entry whose answer still counts.   *)
(* The second try of a failed request is part of it.                        *)
(***************************************************************************)
EXTENDS Naturals

Entry(versions) == [data : versions, stale : BOOLEAN, error : BOOLEAN,
                    fetch : {"idle", "sent", "answered"}, answer : versions]

NoEntry == [data |-> 0, stale |-> FALSE, error |-> FALSE, fetch |-> "idle", answer |-> 0]

HasData(e) == e.data # 0

(* A request goes out; the error of an earlier one stays while there is    *)
(* data to show.                                                           *)
Sent(e) == [e EXCEPT !.fetch = "sent", !.answer = 0, !.error = @ /\ HasData(e)]

(* A poll, or a component that mounts: a request under way serves as well. *)
Joined(e) == IF e.fetch = "idle" THEN Sent(e) ELSE e

(* Mounting asks for what is missing or stale only. *)
Mounted(e) == IF HasData(e) /\ ~ e.stale THEN e ELSE Joined(e)

(* invalidateQueries and refetch: the request under way no longer counts   *)
(* and another goes out, unless it is the first load, which is joined.     *)
Refetched(e) == IF HasData(e) THEN Sent(e) ELSE Joined(e)

(* What no mounted component shows is only marked. *)
Invalidated(e, active) == LET marked == [e EXCEPT !.stale = HasData(e)]
                          IN IF active THEN Refetched(marked) ELSE marked

Aged(e) == [e EXCEPT !.stale = TRUE]

(* The API answers with the version that is current. *)
Served(e, version) == [e EXCEPT !.fetch = "answered", !.answer = version]

(* The answer becomes the data, fresh whatever was invalidated meanwhile. *)
Landed(e) == [NoEntry EXCEPT !.data = e.answer]

(* A request that failed leaves the data, marked stale. *)
Failed(e) == [e EXCEPT !.fetch = "idle", !.answer = 0, !.error = TRUE, !.stale = HasData(e)]

===============================================================================
