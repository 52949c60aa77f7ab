-------------------------- MODULE MCRoomIntake --------------------------
(***************************************************************************)
(* Two rooms.  In the first one a person addresses the bot twice and       *)
(* another one chats, in the second one somebody addresses it.             *)
(***************************************************************************)
EXTENDS RoomIntake, TLC

CONSTANTS hall, den, ann, bob, first, second, chat, aside

MCRoomOf == (aside :> den) @@ [m \in {first, second, chat} |-> hall]
MCAuthorOf == (chat :> bob) @@ (aside :> bob)
              @@ [m \in {first, second} |-> ann]
=========================================================================
