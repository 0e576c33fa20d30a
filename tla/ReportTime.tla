------------------------------ MODULE ReportTime ------------------------------
(***************************************************************************)
(* The durations report_to_file writes between two phases of an            *)
(* association (wifi/netlink/main.cpp), from the time stamps pcap gives    *)
(* the frames: seconds and microseconds.                                   *)
(***************************************************************************)
EXTENDS Integers

Million == 1000 * 1000
TimeStamps == [sec : Nat, usec : {n \in Nat : n < Million}]

(* The time stamp as one number, in microseconds. *)
Microseconds(t) == t.sec * Million + t.usec

(* What is written for the time from "event" to "time": the seconds, only  *)
(* when there are any, and behind them the milliseconds with at least      *)
(* three digits.                                                           *)
WrittenSeconds(event, time) ==
  IF time.usec > event.usec THEN time.sec - event.sec ELSE time.sec - event.sec - 1

WrittenMilliseconds(event, time) ==
  IF time.usec > event.usec THEN (time.usec - event.usec) \div 1000
                            ELSE (time.usec - event.usec + Million) \div 1000

(* The number a reader of the report sees: the digits of the seconds       *)
(* followed by three digits, or four for 1000 milliseconds.                *)
ReadAs(seconds, milliseconds) ==
  IF seconds > 0
  THEN seconds * (IF milliseconds < 1000 THEN 1000 ELSE 10000) + milliseconds
  ELSE milliseconds

report_to_file(event, time) ==
  ReadAs(WrittenSeconds(event, time), WrittenMilliseconds(event, time))

(* The whole milliseconds between the two, which the report means to say. *)
Elapsed(event, time) == (Microseconds(time) - Microseconds(event)) \div 1000

GapRight(event, time) == report_to_file(event, time) = Elapsed(event, time)
===============================================================================
