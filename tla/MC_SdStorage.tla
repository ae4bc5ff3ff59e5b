---------------------------- MODULE MC_SdStorage ----------------------------
(* Two tasks on a card of two blocks; one and two block transfers.  Fewer  *)
(* transfers where calls may time out.                                     *)
EXTENDS SdStorage

MC_Tasks == {"usb", "shell"}
MC_Transfers == {<<"a">>, <<"b">>, <<"a", "b">>}
MC_FewTransfers == {<<"a", "b">>}
=============================================================================
