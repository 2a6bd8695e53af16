---------------------------- MODULE MCChatService ----------------------------
(* Two SendRequest calls in a row, as main makes them, two handleResponse    *)
(* goroutines, one retry of each request at the chat service, and a second   *)
(* delivery of an answer that was the only one: late and repeated answers to *)
(* the first request meet the second.                                        *)
EXTENDS ChatService

MCRequests == 1..2
=============================================================================
