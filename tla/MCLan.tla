-------------------------------- MODULE MCLan --------------------------------
EXTENDS Lan

CONSTANTS ann, ben
Friends == {ann, ben}
MCUses  == {{"back"}, {"over", "lose"}, {"play"}}
MCFull  == {{"back", "lose"}, {"back", "over"}}
MCLate  == {{"play", "late"}}
MCBack  == {{"back"}}
=============================================================================
