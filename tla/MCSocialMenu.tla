---------------------------- MODULE MCSocialMenu ----------------------------
(* SocialMenu for TLC: three links, of which the menu's query returns them  *)
(* all in another order.                                                    *)
EXTENDS SocialMenu

CONSTANTS facebook, mail, web

MCLinks     == {facebook, mail, web}
MCMainOrder == <<facebook, mail, web>>
MCMenuOrder == <<web, facebook, mail>>
=============================================================================
