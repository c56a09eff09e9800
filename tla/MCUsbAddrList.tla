---------------------------- MODULE MCUsbAddrList ----------------------------
(***************************************************************************)
(* A list grows by Add, as the list of enumerated devices of PnPStart does.*)
(***************************************************************************)
EXTENDS UsbAddrList

CONSTANTS
  Bus,       \* bus numbers
  Address,   \* addresses on a bus
  MaxLen     \* bound on the length of the list

VARIABLE list

Init == list = <<>>

Next ==
  \E addr \in Bus \X Address :
    Len(list) < MaxLen /\ list' = Add(list, addr)

Spec == Init /\ [][Next]_list

\* "address list is always sorted in acceding order": every list built with
\* Add is strictly increasing.
ListSorted ==
  \A i, j \in 1..Len(list) : i < j => Less(list[i], list[j])
=============================================================================
