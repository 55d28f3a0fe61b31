{
 "components": [
  {
   "name": "Shared string manager",
   "sources": [
    "src/src/ssm.c",
    "src/src/ssm.h"
   ],
   "modules": [
    "SSM",
    "StringStore",
    "MC_SSM",
    "Memory_proofs"
   ],
   "status": "modelled",
   "note": "string space, str_dup, free_string, fread_string's boot-time crunching, overflow to malloc, defrag_heap and its callers; parsing of characters from files, the caller tags and the loop statistics are left out"
  },
  {
   "name": "Duels",
   "sources": [
    "src/src/duel.c",
    "src/src/duel.h"
   ],
   "modules": [
    "Duel",
    "MC_Duel",
    "Duel_proofs"
   ],
   "status": "modelled",
   "note": "the three stages, spectators, timers, what a duel saves and restores, and every caller outside duel.c; the list of burning objects, mounts and messages are left out"
  },
  {
   "name": "World list and registered loops",
   "sources": [
    "src/src/handler.c",
    "src/src/merc.h",
    "src/src/fight.c",
    "src/src/update.c",
    "src/src/lists.h"
   ],
   "modules": [
    "Traversal",
    "CharList",
    "MC_CharList",
    "Memory_proofs"
   ],
   "status": "partly",
   "note": "first_char, LINK and UNLINK, CREF/CUREF with CHAR_NEXT, the two kinds of extract_char, violence_update's marker, and close_socket's d_next, which is the same device; room lists (CHAR_NEXTROOM), object references and the free lists are left out"
  },
  {
   "name": "Login and sessions",
   "sources": [
    "src/src/comm.c",
    "src/src/act_comm.c",
    "src/src/pdelete.c",
    "src/src/act_wiz.c",
    "src/src/save.c",
    "src/src/handler.c"
   ],
   "modules": [
    "Login",
    "MC_Login",
    "Sessions_proofs"
   ],
   "status": "partly",
   "note": "descriptors, characters and player files from the first line a socket sends to the end of the session: names, passwords, creation, reconnection, switching, quitting, deletion, hot reboots and crashes; bans, wizlock, denied players and the menu of a new character are left out, as are snooping and the sockets' buffers"
  },
  {
   "name": "Failed logins by address",
   "sources": [
    "src/src/comm.c"
   ],
   "modules": [
    "AuthThrottle",
    "Gate",
    "MC_Gate",
    "Sessions_proofs"
   ],
   "status": "modelled",
   "note": "auth_fail_index, auth_is_throttled, auth_note_failure and auth_clear_failures, called as nanny calls them"
  },
  {
   "name": "Auctions",
   "sources": [
    "src/src/auction.c",
    "src/src/auction.h"
   ],
   "modules": [
    "Market",
    "MC_Market",
    "Market_proofs"
   ],
   "status": "modelled",
   "note": "adding, bidding, ending, cancelling and settling of gold and quest point auctions, the auction file, and players who are away; keywords, listing and the limits on what one carries are left out"
  },
  {
   "name": "Trading",
   "sources": [
    "src/src/trade.c"
   ],
   "modules": [
    "Market",
    "MC_Market",
    "Market_proofs"
   ],
   "status": "modelled",
   "note": "starting, changing, accepting and aborting a trade, and what it transfers; what may be traded is any item that is carried"
  },
  {
   "name": "Treasury and banking",
   "sources": [
    "src/src/treasury.c",
    "src/src/act_info.c",
    "src/src/special.c"
   ],
   "modules": [
    "Market",
    "MC_Market",
    "Market_proofs"
   ],
   "status": "modelled",
   "note": "deposits and withdrawals of gold and quest points, quest point items, the tax collector, and the files; the treasury's history is left out"
  },
  {
   "name": "Characters and objects",
   "sources": [
    "src/src/handler.c",
    "src/src/act_obj.c",
    "src/src/act_move.c"
   ],
   "modules": [
    "Objects",
    "MC_Objects",
    "Objects_proofs"
   ],
   "status": "partly",
   "note": "holding, wearing, containers, corpses, coins, shops, light and the counts kept of them; liquids, affects of what is worn, levels, names and lockers are left out"
  },
  {
   "name": "Quests",
   "sources": [
    "src/src/quest.c",
    "src/src/update.c",
    "src/src/handler.c",
    "src/src/fight.c",
    "src/src/act_obj.c"
   ],
   "modules": [
    "Quest",
    "People",
    "MC_Quest",
    "People_proofs"
   ],
   "status": "modelled",
   "note": "quest_mob, quest_target and quest_object under every command of do_quest, the tick, deaths, purges, corpses and what may be done with the object; rewards, the log of past quests and what the mob says are left out"
  },
  {
   "name": "Combat",
   "sources": [
    "src/src/fight.c"
   ],
   "modules": [
    "Company",
    "People",
    "People_proofs",
    "Duel",
    "CharList"
   ],
   "status": "partly",
   "note": "who fights whom: rounds, mobs that choose another foe or cast a spell in their turn, the skills and spells that come to a blow, blows that end in death, flight, charm broken or a second blow, assistance, rescue and aggressive mobs; corpses are in Objects, duels in Duel, the walk of violence_update in CharList; how much a blow hurts, disarming, tripping, who may attack whom among players, experience and stun timers are left out"
  },
  {
   "name": "Movement, mounts and hunting",
   "sources": [
    "src/src/act_move.c",
    "src/src/mount.c",
    "src/src/hunt.c"
   ],
   "modules": [
    "Company",
    "People"
   ],
   "status": "partly",
   "note": "who walks with whom, riders and mounts, recall and mobs that hunt; doors, sneaking, terrain, stun and path finding are left out"
  },
  {
   "name": "Resolver",
   "sources": [
    "src/src/dns.c",
    "src/src/comm.c"
   ],
   "modules": [
    "Dns",
    "Gate",
    "MC_Gate",
    "Sessions_proofs"
   ],
   "status": "modelled",
   "note": "the lookups, the cache and their ends, questions by datagram with numbers that may collide, answers late, lost, repeated or out of order, the socket and whom the name is shown to; the layout of packets and the compression of names are left out"
  },
  {
   "name": "Notes and boards",
   "sources": [
    "src/src/board.c",
    "src/src/write.c",
    "src/src/act_comm.c"
   ],
   "modules": [
    "Writing",
    "Writing_proofs"
   ],
   "status": "partly",
   "note": "the editor, messages from the first line to the file, edits and deletions of them, notes from the draft to the mailbox and the file, blows, deaths, leavings, inherited sessions and crashes in between; deletions of edited messages and second sessions are left out by Careful; reading of boards, expiry, subjects, and the other users of the editor (mail, news, programs, builders) are left out"
  },
  {
   "name": "On-line building",
   "sources": [
    "src/src/build.c",
    "src/src/areasave.c",
    "src/src/buildare.c"
   ],
   "modules": [
    "Building",
    "MC_Building",
    "Building_proofs"
   ],
   "status": "partly",
   "note": "one area: rooms, exits and doors, mobiles and objects by vnum, resets in their two lists, deletions by ask and confirm, what flags the area as modified, the incremental save and its queue; editing modes, permissions of several areas, teleporters, lockers, shops, mobile programs and the show and find commands are left out"
  },
  {
   "name": "Generic lists and free lists",
   "sources": [
    "src/src/lists.h",
    "src/src/lists.c",
    "src/src/merc.h"
   ],
   "modules": [],
   "status": "not_modelled",
   "note": "LINK, UNLINK, GET_FREE and PUT_FREE at the level of pointers; CharList has the world list as a sequence with what extraction does to loops over it, Login, Duel and Quest the memory that is freed and used again"
  },
  {
   "name": "Game loop and sockets",
   "sources": [
    "src/src/comm.c",
    "src/src/macros.c"
   ],
   "modules": [],
   "status": "not_modelled",
   "note": "select, the buffers and the order of input, update and output in a pulse: that order is what the fairness of the models rests on, and what nanny and close_socket do is in Login and Gate"
  },
  {
   "name": "Timed updates",
   "sources": [
    "src/src/update.c"
   ],
   "modules": [],
   "status": "not_modelled",
   "note": "what falls due is an action with fairness in the module it belongs to (Duel, Market, Quest, Gate, Building); regeneration, weather and hunger are arithmetic on single records"
  },
  {
   "name": "World database",
   "sources": [
    "src/src/db.c"
   ],
   "modules": [
    "Building",
    "Objects"
   ],
   "status": "partly",
   "note": "which resets the boot loads and discards and whom they belong to (Building), and what reset_area makes of those for objects (Objects); the parsing of the area files, prototypes and shops are left out"
  },
  {
   "name": "Player files",
   "sources": [
    "src/src/save.c"
   ],
   "modules": [],
   "status": "not_modelled",
   "note": "fwrite and fread of records. Who is saved when, and what of him reaches the file, is in Duel, Login and Market"
  },
  {
   "name": "Output compression",
   "sources": [
    "src/src/mccp.c"
   ],
   "modules": [],
   "status": "not_modelled",
   "note": "the telnet negotiation and the flush of a compressed stream: what could go wrong is inside zlib's buffers"
  },
  {
   "name": "Clans",
   "sources": [
    "src/src/act_clan.c"
   ],
   "modules": [],
   "status": "not_modelled",
   "note": "commands that set single fields of a clan table and save it; the treasury of a clan is in Market"
  },
  {
   "name": "Mobile programs",
   "sources": [
    "src/src/mob_prog.c",
    "src/src/mob_commands.c",
    "src/src/trigger.c",
    "src/src/special.c"
   ],
   "modules": [],
   "status": "not_modelled",
   "note": "an interpreter of scripts: what they can do is what commands do; the tax collector is in Market"
  },
  {
   "name": "Magic",
   "sources": [
    "src/src/magic.c",
    "src/src/magic2.c",
    "src/src/magic3.c",
    "src/src/magic4.c"
   ],
   "modules": [],
   "status": "not_modelled",
   "note": "spells are formulas on single records; that a spell comes to blows, and charm, are in Company, and spells that walk the list of characters in CharList by their registration"
  },
  {
   "name": "Commands and information",
   "sources": [
    "src/src/interp.c",
    "src/src/act_info.c",
    "src/src/act_comm.c",
    "src/src/social-edit.c",
    "src/src/scheck.c"
   ],
   "modules": [],
   "status": "not_modelled",
   "note": "parsing and printing; do_quit is in Login, Duel, Market and Quest, do_bank and do_token in Market, the notes of act_comm.c in Writing"
  },
  {
   "name": "Immortal commands",
   "sources": [
    "src/src/act_wiz.c",
    "src/src/wizutil.c",
    "src/src/rulers.c"
   ],
   "modules": [],
   "status": "not_modelled",
   "note": "do_switch, do_return and do_hotreboot are in Login, do_transfer and do_slay in Duel, what do_purge extracts in Quest and Company; the others set single fields or print"
  },
  {
   "name": "Hashes and passwords",
   "sources": [
    "src/src/md5c.c",
    "src/src/wizutil.c"
   ],
   "modules": [],
   "status": "not_modelled",
   "note": "MD5 is arithmetic on 64 rounds, and tests/unit/test_md5.c compares it with known values"
  },
  {
   "name": "Constant tables",
   "sources": [
    "src/src/const.c",
    "src/src/tables.h"
   ],
   "modules": [],
   "status": "not_modelled",
   "note": "data"
  }
 ],
 "runs": [
  {
   "name": "ssm",
   "module": "MC_SSM",
   "cfg": "SSM.cfg",
   "expect": "pass",
   "properties": [
    "NoOverlap",
    "UsageCountsRefs",
    "BootTableLive",
    "ImplementsStore"
   ],
   "about": "every sequence of dups, shares, frees, double frees, file reads and defragmentations over two chunks, during the boot, after it and in the later fBootDb windows, with sizes that wrap as in the code: the manager implements StringStore"
  },
  {
   "name": "duel_pair",
   "module": "MC_Duel",
   "cfg": "Duel_pair.cfg",
   "expect": "pass",
   "properties": [
    "FilesFromOutside",
    "SparLeavesNoTrace",
    "DuelsEnd"
   ],
   "about": "two players, one arena and meddling immortals: every stage and timer, wounds, deaths, lost links, saves, reboots and crashes; a duel leaves no trace and ends"
  },
  {
   "name": "duel_field",
   "module": "MC_Duel",
   "cfg": "Duel_field.cfg",
   "expect": "pass",
   "properties": [
    "OneRole",
    "InTheirPlaces"
   ],
   "about": "four players and two arenas: two duels at once, spectators, and who may be where"
  },
  {
   "name": "charlist",
   "module": "MC_CharList",
   "cfg": "CharList.cfg",
   "expect": "pass",
   "properties": [
    "LoopsExact",
    "FightsOwed",
    "ImplementsTraversal"
   ],
   "about": "loops in loops and a round of fights, while characters are created, die and are extracted: no loop meets a freed character, skips one or visits one twice"
  },
  {
   "name": "login",
   "module": "MC_Login",
   "cfg": "Login.cfg",
   "expect": "pass",
   "properties": [
    "OneBody",
    "Attached",
    "EntersCurrent"
   ],
   "about": "three sockets and two names: logins that race for a name, reconnections, switches, quits, deletions, hot reboots and crashes in any order"
  },
  {
   "name": "market",
   "module": "MC_Market",
   "cfg": "Market.cfg",
   "expect": "pass",
   "properties": [
    "OnePlace",
    "PromisesHold",
    "NothingFromNowhere",
    "Binding",
    "AuctionsEnd"
   ],
   "about": "two players and two items: auctions, bids, trades, the bank, the treasury, deletions and restarts in any order; every item stays in one place and every promise is funded"
  },
  {
   "name": "objects",
   "module": "MC_Objects",
   "cfg": "Objects.cfg",
   "expect": "pass",
   "properties": [
    "Placed",
    "CountersExact",
    "CoinsKept"
   ],
   "about": "a player and a mob, a bag, two lamps, coins and corpses: whatever is got, put, worn, bought, stolen, dropped by the dead or decays, every object is in one place and the counts kept of it are exact"
  },
  {
   "name": "quest",
   "module": "MC_Quest",
   "cfg": "Quest.cfg",
   "expect": "pass",
   "properties": [
    "NothingDangles",
    "NamesRestored",
    "QuestEnds"
   ],
   "about": "two players, two mobs, one object and one corpse: no pointer of a quest outlives what it points to, the object is only with those who may have it, and every quest ends"
  },
  {
   "name": "company",
   "module": "Company",
   "cfg": "Company.cfg",
   "expect": "pass",
   "properties": [
    "NobodyDangles",
    "FollowersCounted",
    "FightsBeginTogether"
   ],
   "about": "a player and two mobs in two rooms: they fight, follow, ride, hunt, flee and die by each other's blows, and no pointer outlives anybody, no follower is miscounted and no fight begins at a distance"
  },
  {
   "name": "gate",
   "module": "MC_Gate",
   "cfg": "Gate.cfg",
   "expect": "pass",
   "properties": [
    "NamesVerified",
    "CountDeserved",
    "LookupsEnd",
    "RefusedForAWhile"
   ],
   "about": "connections from two addresses of one name that is only one's, numbers that collide, answers lost, late, repeated and out of order, right and wrong passwords: nobody is known by a name that is not his address's, but for the addresses whose numbers were mixed up, or pays for another's failures; every lookup ends though it is asked for again midway, and so does every refusal"
  },
  {
   "name": "writing",
   "module": "Writing",
   "cfg": "Writing.cfg",
   "expect": "pass",
   "properties": [
    "SessionsSound",
    "FinishedSurvives",
    "NoneUnwritten"
   ],
   "about": "two players, two messages, a note, deletions, fights, deaths, leavings, inherited sessions and crashes in the middle of a draft: with two checks that the code lacks (Careful), sessions point at what exists, what was finished is on the disk but for edits since the last save, and no message stays without a text"
  },
  {
   "name": "building",
   "module": "MC_Building",
   "cfg": "Building.cfg",
   "expect": "pass",
   "properties": [
    "ExitsLead",
    "ResetsSound",
    "QuietMeansSaved",
    "EditsSaved"
   ],
   "about": "two builders, one of whom may write, up to three rooms with doors, resets with equipment, saves of one area by pulses and a crash or reboot at any point: exits and resets stay sound, and what was flagged reaches the file"
  }
 ],
 "mutants": [
  {
   "run": "ssm",
   "property": "NoOverlap",
   "module": "SSM",
   "of": "DupSplit",
   "as": "DupSplitOverlaps"
  },
  {
   "run": "ssm",
   "property": "UsageCountsRefs",
   "module": "SSM",
   "of": "DupWhole",
   "as": "DupWholeNoTest"
  },
  {
   "run": "ssm",
   "property": "BootTableLive",
   "module": "SSM",
   "of": "FreeString",
   "as": "FreeStringKeepsEntry"
  },
  {
   "run": "ssm",
   "property": "ImplementsStore",
   "module": "SSM",
   "of": "Fits",
   "as": "FitsInUse"
  },
  {
   "run": "duel_pair",
   "property": "FilesFromOutside",
   "module": "Duel",
   "of": "SaveFile",
   "as": "SaveFileAlways"
  },
  {
   "run": "duel_pair",
   "property": "SparLeavesNoTrace",
   "module": "Duel",
   "of": "SavedIn",
   "as": "SavedInFirst"
  },
  {
   "run": "duel_pair",
   "property": "DuelsEnd",
   "module": "Duel",
   "of": "Aged",
   "as": "AgedNot"
  },
  {
   "run": "duel_field",
   "property": "OneRole",
   "module": "Duel",
   "of": "MayDuel",
   "as": "MayDuelWatching"
  },
  {
   "run": "duel_field",
   "property": "InTheirPlaces",
   "module": "Duel",
   "of": "AfterLeaving",
   "as": "AfterLeavingReady"
  },
  {
   "run": "charlist",
   "property": "LoopsExact",
   "module": "CharList",
   "of": "Advanced",
   "as": "AdvancedTop"
  },
  {
   "run": "charlist",
   "property": "FightsOwed",
   "module": "CharList",
   "of": "FightsBegin",
   "as": "FightsBeginTop"
  },
  {
   "run": "charlist",
   "property": "ImplementsTraversal",
   "module": "CharList",
   "of": "Step",
   "as": "StepOver"
  },
  {
   "run": "login",
   "property": "OneBody",
   "module": "Login",
   "of": "Rivals",
   "as": "RivalsPlaying"
  },
  {
   "run": "login",
   "property": "Attached",
   "module": "Login",
   "of": "Vacant",
   "as": "VacantAll"
  },
  {
   "run": "login",
   "property": "EntersCurrent",
   "module": "Login",
   "of": "OtherLogins",
   "as": "OtherLoginsPlaying"
  },
  {
   "run": "market",
   "property": "OnePlace",
   "module": "Market",
   "of": "ToSave",
   "as": "ToSaveWinner"
  },
  {
   "run": "market",
   "property": "PromisesHold",
   "module": "Market",
   "of": "Involved",
   "as": "InvolvedOwner"
  },
  {
   "run": "market",
   "property": "NothingFromNowhere",
   "module": "Market",
   "of": "Settled",
   "as": "SettledFree"
  },
  {
   "run": "market",
   "property": "Binding",
   "module": "Market",
   "of": "OpenToChange",
   "as": "OpenToChangeOwn"
  },
  {
   "run": "market",
   "property": "AuctionsEnd",
   "module": "Market",
   "of": "Aged",
   "as": "AgedWhenBid"
  },
  {
   "run": "objects",
   "property": "Placed",
   "module": "Objects",
   "of": "Fits",
   "as": "FitsAnything"
  },
  {
   "run": "objects",
   "property": "CountersExact",
   "module": "Objects",
   "of": "ToObj",
   "as": "ToObjDirect"
  },
  {
   "run": "objects",
   "property": "CoinsKept",
   "module": "Objects",
   "of": "Heap",
   "as": "HeapNew"
  },
  {
   "run": "quest",
   "property": "NothingDangles",
   "module": "Quest",
   "of": "Rotten",
   "as": "RottenAll"
  },
  {
   "run": "quest",
   "property": "NamesRestored",
   "module": "Quest",
   "of": "Missed",
   "as": "MissedMob"
  },
  {
   "run": "quest",
   "property": "QuestEnds",
   "module": "Quest",
   "of": "Told",
   "as": "ToldAlive"
  },
  {
   "run": "company",
   "property": "NobodyDangles",
   "module": "Company",
   "of": "Forgotten",
   "as": "ForgottenMount"
  },
  {
   "run": "company",
   "property": "FollowersCounted",
   "module": "Company",
   "of": "DieFollower",
   "as": "DieFollowerBare"
  },
  {
   "run": "company",
   "property": "FightsBeginTogether",
   "module": "Company",
   "of": "Rescue",
   "as": "RescueFar"
  },
  {
   "run": "gate",
   "property": "NamesVerified",
   "module": "Dns",
   "of": "Confirmed",
   "as": "ConfirmedAny"
  },
  {
   "run": "gate",
   "property": "LookupsEnd",
   "module": "Dns",
   "of": "AskAgain",
   "as": "AskAnew"
  },
  {
   "run": "gate",
   "property": "CountDeserved",
   "module": "AuthThrottle",
   "of": "LookedUp",
   "as": "LookedUpCounted"
  },
  {
   "run": "gate",
   "property": "RefusedForAWhile",
   "module": "AuthThrottle",
   "of": "LookedUp",
   "as": "LookedUpAnew"
  },
  {
   "run": "writing",
   "property": "SessionsSound",
   "module": "Writing",
   "of": "Ended",
   "as": "EndedNever"
  },
  {
   "run": "writing",
   "property": "FinishedSurvives",
   "module": "Writing",
   "of": "Kept",
   "as": "KeptUnwritten"
  },
  {
   "run": "writing",
   "property": "NoneUnwritten",
   "module": "Writing",
   "of": "Unwrite",
   "as": "UnwriteNothing"
  },
  {
   "run": "building",
   "property": "ExitsLead",
   "module": "Building",
   "of": "WithoutExits",
   "as": "OwnExitsOnly"
  },
  {
   "run": "building",
   "property": "ResetsSound",
   "module": "Building",
   "of": "After",
   "as": "AfterLast"
  },
  {
   "run": "building",
   "property": "QuietMeansSaved",
   "module": "Building",
   "of": "Flagged",
   "as": "FlaggedNot"
  },
  {
   "run": "building",
   "property": "EditsSaved",
   "module": "Building",
   "of": "Ended",
   "as": "EndedAlone"
  }
 ],
 "map": {
  "SSM": {
   "Init": {
    "source": "src/src/ssm.c",
    "lines": [
     70,
     101
    ],
    "symbol": "init_string_space"
   },
   "Need": {
    "source": "src/src/ssm.c",
    "lines": [
     198,
     207
    ],
    "symbol": "_str_dup"
   },
   "Ask": {
    "source": "src/src/ssm.c",
    "lines": [
     173,
     185
    ],
    "symbol": "_str_dup"
   },
   "CountUp": {
    "source": "src/src/ssm.c",
    "lines": [
     187,
     196
    ],
    "symbol": "_str_dup"
   },
   "StrDup": {
    "source": "src/src/ssm.c",
    "lines": [
     173,
     215
    ],
    "symbol": "_str_dup"
   },
   "StrDupHeap": {
    "source": "src/src/ssm.c",
    "lines": [
     187,
     196
    ],
    "symbol": "_str_dup"
   },
   "HeapHits": {
    "source": "src/src/ssm.c",
    "lines": [
     509,
     532
    ],
    "symbol": "temp_hash_find"
   },
   "OverHits": {
    "source": "src/src/ssm.c",
    "lines": [
     509,
     532
    ],
    "symbol": "temp_hash_find"
   },
   "SureHit": {
    "source": "src/src/ssm.c",
    "lines": [
     509,
     532
    ],
    "symbol": "temp_hash_find"
   },
   "FreadString": {
    "source": "src/src/ssm.c",
    "lines": [
     389,
     458
    ],
    "symbol": "_fread_string, _fread_string_eol"
   },
   "FreeString": {
    "source": "src/src/ssm.c",
    "lines": [
     291,
     339
    ],
    "symbol": "_free_string"
   },
   "FreeOverflow": {
    "source": "src/src/ssm.c",
    "lines": [
     341,
     344
    ],
    "symbol": "_free_string"
   },
   "Fits": {
    "source": "src/src/ssm.c",
    "lines": [
     209,
     215
    ],
    "symbol": "_str_dup"
   },
   "Granted": {
    "source": "src/src/ssm.c",
    "lines": [
     276,
     283
    ],
    "symbol": "_str_dup"
   },
   "Cut": {
    "source": "src/src/ssm.c",
    "lines": [
     250,
     262
    ],
    "symbol": "_str_dup"
   },
   "DupSplit": {
    "source": "src/src/ssm.c",
    "lines": [
     209,
     283
    ],
    "symbol": "_str_dup"
   },
   "DupWhole": {
    "source": "src/src/ssm.c",
    "lines": [
     217,
     283
    ],
    "symbol": "_str_dup"
   },
   "DupFails": {
    "source": "src/src/ssm.c",
    "lines": [
     220,
     233
    ],
    "symbol": "_str_dup"
   },
   "DupOverflow": {
    "source": "src/src/ssm.c",
    "lines": [
     235,
     248
    ],
    "symbol": "_str_dup"
   },
   "IsLeast": {
    "source": "src/src/ssm.c",
    "lines": [
     121,
     122
    ],
    "symbol": "defrag_heap"
   },
   "Advance": {
    "source": "src/src/ssm.c",
    "lines": [
     121,
     122
    ],
    "symbol": "defrag_heap"
   },
   "Mergeable": {
    "source": "src/src/ssm.c",
    "lines": [
     138,
     138
    ],
    "symbol": "defrag_heap"
   },
   "DefragUsed": {
    "source": "src/src/ssm.c",
    "lines": [
     121,
     127
    ],
    "symbol": "defrag_heap"
   },
   "DefragFirstFree": {
    "source": "src/src/ssm.c",
    "lines": [
     128,
     135
    ],
    "symbol": "defrag_heap"
   },
   "DefragMerge": {
    "source": "src/src/ssm.c",
    "lines": [
     136,
     143
    ],
    "symbol": "defrag_heap"
   },
   "DefragTooBig": {
    "source": "src/src/ssm.c",
    "lines": [
     144,
     146
    ],
    "symbol": "defrag_heap"
   },
   "DefragDone": {
    "source": "src/src/ssm.c",
    "lines": [
     149,
     157
    ],
    "symbol": "defrag_heap"
   },
   "Down": {
    "source": "src/src/ssm.c",
    "lines": [
     265,
     265
    ],
    "symbol": "_str_dup"
   },
   "Short": {
    "source": "src/src/ssm.h",
    "lines": [
     13,
     21
    ],
    "symbol": "BufEntry"
   },
   "DoMemoryDefrag": {
    "source": "src/src/db.c",
    "lines": [
     3404,
     3417
    ],
    "symbol": "do_memory"
   },
   "BootEnds": {
    "source": "src/src/db.c",
    "lines": [
     543,
     553
    ],
    "symbol": "boot_db"
   },
   "GetAll": {
    "source": "src/src/act_obj.c",
    "lines": [
     178,
     196
    ],
    "symbol": "do_get"
   },
   "GetAllEnd": {
    "source": "src/src/act_obj.c",
    "lines": [
     196,
     196
    ],
    "symbol": "do_get"
   },
   "Phase": {
    "source": "src/src/act_obj.c",
    "lines": [
     181,
     196
    ],
    "symbol": "do_get"
   },
   "fBootDb": {
    "source": "src/src/act_obj.c",
    "lines": [
     181,
     196
    ],
    "symbol": "do_get"
   }
  },
  "Duel": {
   "InDuel": {
    "source": "src/src/duel.c",
    "lines": [
     37,
     53
    ],
    "symbol": "is_in_duel"
   },
   "Watching": {
    "source": "src/src/duel.c",
    "lines": [
     55,
     70
    ],
    "symbol": "is_watching_duel"
   },
   "DuelsOf": {
    "source": "src/src/duel.c",
    "lines": [
     106,
     139
    ],
    "symbol": "find_duel, find_duel_player"
   },
   "Returning": {
    "source": "src/src/duel.c",
    "lines": [
     753,
     762
    ],
    "symbol": "cancel_duel"
   },
   "SavedIn": {
    "source": "src/src/duel.c",
    "lines": [
     766,
     771
    ],
    "symbol": "cancel_duel"
   },
   "Restored": {
    "source": "src/src/duel.c",
    "lines": [
     763,
     785
    ],
    "symbol": "cancel_duel"
   },
   "Released": {
    "source": "src/src/duel.c",
    "lines": [
     787,
     792
    ],
    "symbol": "cancel_duel"
   },
   "Written": {
    "source": "src/src/duel.c",
    "lines": [
     794,
     797
    ],
    "symbol": "cancel_duel"
   },
   "Cancel": {
    "source": "src/src/duel.c",
    "lines": [
     684,
     815
    ],
    "symbol": "cancel_duel"
   },
   "FreeRooms": {
    "source": "src/src/duel.c",
    "lines": [
     176,
     190
    ],
    "symbol": "find_duel_room"
   },
   "IsDuelRoom": {
    "source": "src/src/duel.c",
    "lines": [
     169,
     191
    ],
    "symbol": "find_duel_room"
   },
   "NewDuel": {
    "source": "src/src/duel.c",
    "lines": [
     225,
     271
    ],
    "symbol": "new_duel"
   },
   "MayDuel": {
    "source": "src/src/duel.c",
    "lines": [
     514,
     581
    ],
    "symbol": "do_duel"
   },
   "Challenge": {
    "source": "src/src/duel.c",
    "lines": [
     514,
     682
    ],
    "symbol": "do_duel"
   },
   "AllAccepted": {
    "source": "src/src/duel.c",
    "lines": [
     207,
     211
    ],
    "symbol": "accept_duel"
   },
   "Accepted": {
    "source": "src/src/duel.c",
    "lines": [
     193,
     223
    ],
    "symbol": "accept_duel"
   },
   "Accept": {
    "source": "src/src/duel.c",
    "lines": [
     398,
     442
    ],
    "symbol": "do_duel"
   },
   "Watch": {
    "source": "src/src/duel.c",
    "lines": [
     444,
     486
    ],
    "symbol": "do_duel"
   },
   "Aged": {
    "source": "src/src/duel.c",
    "lines": [
     828,
     857
    ],
    "symbol": "duel_update"
   },
   "TimedOut": {
    "source": "src/src/duel.c",
    "lines": [
     828,
     857
    ],
    "symbol": "duel_update"
   },
   "Started": {
    "source": "src/src/duel.c",
    "lines": [
     273,
     353
    ],
    "symbol": "start_duel"
   },
   "DuelUpdate": {
    "source": "src/src/duel.c",
    "lines": [
     817,
     864
    ],
    "symbol": "duel_update"
   },
   "Init": {
    "source": "src/src/duel.c",
    "lines": [
     16,
     17
    ],
    "symbol": "first_duel, last_duel"
   },
   "Lethal": {
    "source": "src/src/duel.c",
    "lines": [
     866,
     898
    ],
    "symbol": "duel_rawkill"
   },
   "DuelData": {
    "source": "src/src/duel.h",
    "lines": [
     99,
     160
    ],
    "symbol": "duel_player_data, duel_data"
   },
   "Unwatched": {
    "source": "src/src/handler.c",
    "lines": [
     749,
     762
    ],
    "symbol": "char_from_room"
   },
   "AfterLeaving": {
    "source": "src/src/handler.c",
    "lines": [
     742,
     762
    ],
    "symbol": "char_from_room"
   },
   "Move": {
    "source": "src/src/handler.c",
    "lines": [
     723,
     790
    ],
    "symbol": "char_from_room"
   },
   "Transfer": {
    "source": "src/src/act_wiz.c",
    "lines": [
     555,
     635
    ],
    "symbol": "do_transfer"
   },
   "Killed": {
    "source": "src/src/fight.c",
    "lines": [
     2494,
     2631
    ],
    "symbol": "raw_kill"
   },
   "Hurt": {
    "source": "src/src/fight.c",
    "lines": [
     1431,
     1476
    ],
    "symbol": "damage"
   },
   "Slay": {
    "source": "src/src/fight.c",
    "lines": [
     3706,
     3743
    ],
    "symbol": "do_slay"
   },
   "SaveFile": {
    "source": "src/src/save.c",
    "lines": [
     105,
     122
    ],
    "symbol": "save_char_obj"
   },
   "SavedRoom": {
    "source": "src/src/save.c",
    "lines": [
     272,
     279
    ],
    "symbol": "fwrite_char"
   },
   "Save": {
    "source": "src/src/save.c",
    "lines": [
     105,
     126
    ],
    "symbol": "save_char_obj"
   },
   "LoseLink": {
    "source": "src/src/comm.c",
    "lines": [
     1203,
     1230
    ],
    "symbol": "close_socket"
   },
   "Reconnect": {
    "source": "src/src/comm.c",
    "lines": [
     3919,
     3945
    ],
    "symbol": "check_reconnect"
   },
   "HotReboot": {
    "source": "src/src/comm.c",
    "lines": [
     4462,
     4534
    ],
    "symbol": "do_hotreboot"
   },
   "Login": {
    "source": "src/src/comm.c",
    "lines": [
     3486,
     3492
    ],
    "symbol": "nanny"
   },
   "Idle": {
    "source": "src/src/update.c",
    "lines": [
     1089,
     1092
    ],
    "symbol": "char_update"
   },
   "Heal": {
    "source": "src/src/update.c",
    "lines": [
     954,
     998
    ],
    "symbol": "gain_update"
   },
   "Quit": {
    "source": "src/src/act_comm.c",
    "lines": [
     1541,
     1665
    ],
    "symbol": "do_quit"
   }
  },
  "CharList": {
   "Loop": {
    "source": "src/src/merc.h",
    "lines": [
     432,
     437
    ],
    "symbol": "CREF"
   },
   "Behind": {
    "source": "src/src/merc.h",
    "lines": [
     2722,
     2740
    ],
    "symbol": "LINK"
   },
   "IsNext": {
    "source": "src/src/merc.h",
    "lines": [
     2722,
     2740
    ],
    "symbol": "LINK"
   },
   "IsFirst": {
    "source": "src/src/merc.h",
    "lines": [
     2722,
     2740
    ],
    "symbol": "LINK"
   },
   "Create": {
    "source": "src/src/db.c",
    "lines": [
     2290,
     2302
    ],
    "symbol": "create_mobile"
   },
   "Nodes": {
    "source": "src/src/handler.c",
    "lines": [
     100,
     100
    ],
    "symbol": "char_ref_list"
   },
   "Advanced": {
    "source": "src/src/handler.c",
    "lines": [
     1746,
     1761
    ],
    "symbol": "extract_char"
   },
   "Extract": {
    "source": "src/src/handler.c",
    "lines": [
     1716,
     1865
    ],
    "symbol": "extract_char"
   },
   "Begin": {
    "source": "src/src/handler.c",
    "lines": [
     103,
     113
    ],
    "symbol": "char_reference"
   },
   "BeginAgain": {
    "source": "src/src/handler.c",
    "lines": [
     105,
     108
    ],
    "symbol": "char_reference"
   },
   "Running": {
    "source": "src/src/handler.c",
    "lines": [
     111,
     112
    ],
    "symbol": "char_reference"
   },
   "NoLoop": {
    "source": "src/src/handler.c",
    "lines": [
     126,
     126
    ],
    "symbol": "char_unreference"
   },
   "Without": {
    "source": "src/src/handler.c",
    "lines": [
     1840,
     1857
    ],
    "symbol": "extract_char"
   },
   "End": {
    "source": "src/src/handler.c",
    "lines": [
     115,
     133
    ],
    "symbol": "char_unreference"
   },
   "ListInit": {
    "source": "src/src/handler.c",
    "lines": [
     100,
     100
    ],
    "symbol": "char_ref_list"
   },
   "Die": {
    "source": "src/src/handler.c",
    "lines": [
     1716,
     1797
    ],
    "symbol": "extract_char"
   },
   "Step": {
    "source": "src/src/update.c",
    "lines": [
     1013,
     1018
    ],
    "symbol": "char_update"
   },
   "Fights": {
    "source": "src/src/fight.c",
    "lines": [
     129,
     137
    ],
    "symbol": "violence_update"
   },
   "FightsBegin": {
    "source": "src/src/fight.c",
    "lines": [
     129,
     137
    ],
    "symbol": "violence_update"
   },
   "Fight": {
    "source": "src/src/fight.c",
    "lines": [
     139,
     151
    ],
    "symbol": "violence_update"
   },
   "FightsEnd": {
    "source": "src/src/fight.c",
    "lines": [
     536,
     543
    ],
    "symbol": "violence_update"
   }
  },
  "Login": {
   "Connect": {
    "source": "src/src/comm.c",
    "lines": [
     1023,
     1155
    ],
    "symbol": "new_descriptor, init_descriptor"
   },
   "GiveName": {
    "source": "src/src/comm.c",
    "lines": [
     2902,
     3034
    ],
    "symbol": "nanny"
   },
   "Refuse": {
    "source": "src/src/comm.c",
    "lines": [
     3126,
     3131
    ],
    "symbol": "nanny"
   },
   "Confirm": {
    "source": "src/src/comm.c",
    "lines": [
     3113,
     3124
    ],
    "symbol": "nanny"
   },
   "Enter": {
    "source": "src/src/comm.c",
    "lines": [
     3529,
     3620
    ],
    "symbol": "nanny"
   },
   "Created": {
    "source": "src/src/comm.c",
    "lines": [
     3529,
     3541
    ],
    "symbol": "nanny"
   },
   "TakeOver": {
    "source": "src/src/comm.c",
    "lines": [
     3913,
     3968
    ],
    "symbol": "check_reconnect"
   },
   "Vacant": {
    "source": "src/src/comm.c",
    "lines": [
     3919,
     3922
    ],
    "symbol": "check_reconnect"
   },
   "InWorld": {
    "source": "src/src/comm.c",
    "lines": [
     3919,
     3922
    ],
    "symbol": "check_reconnect"
   },
   "Rivals": {
    "source": "src/src/comm.c",
    "lines": [
     3973,
     3985
    ],
    "symbol": "check_playing"
   },
   "RightPassword": {
    "source": "src/src/comm.c",
    "lines": [
     3036,
     3111
    ],
    "symbol": "nanny"
   },
   "Drop": {
    "source": "src/src/comm.c",
    "lines": [
     911,
     919
    ],
    "symbol": "game_loop_unix"
   },
   "HangUp": {
    "source": "src/src/comm.c",
    "lines": [
     823,
     842
    ],
    "symbol": "game_loop_unix"
   },
   "Close": {
    "source": "src/src/comm.c",
    "lines": [
     1162,
     1268
    ],
    "symbol": "close_socket"
   },
   "Disowned": {
    "source": "src/src/comm.c",
    "lines": [
     1182,
     1211
    ],
    "symbol": "close_socket"
   },
   "Copies": {
    "source": "src/src/comm.c",
    "lines": [
     1233,
     1235
    ],
    "symbol": "close_socket"
   },
   "Unlinked": {
    "source": "src/src/comm.c",
    "lines": [
     1182,
     1211
    ],
    "symbol": "close_socket"
   },
   "Freed": {
    "source": "src/src/comm.c",
    "lines": [
     1233,
     1235
    ],
    "symbol": "close_socket"
   },
   "Shut": {
    "source": "src/src/comm.c",
    "lines": [
     1241,
     1262
    ],
    "symbol": "close_socket"
   },
   "Playing": {
    "source": "src/src/comm.c",
    "lines": [
     1202,
     1202
    ],
    "symbol": "close_socket"
   },
   "HotReboot": {
    "source": "src/src/comm.c",
    "lines": [
     4462,
     4566
    ],
    "symbol": "do_hotreboot"
   },
   "Rebooted": {
    "source": "src/src/comm.c",
    "lines": [
     4526,
     4530
    ],
    "symbol": "do_hotreboot"
   },
   "CH": {
    "source": "src/src/merc.h",
    "lines": [
     2715,
     2715
    ],
    "symbol": "CH"
   },
   "States": {
    "source": "src/src/merc.h",
    "lines": [
     704,
     720
    ],
    "symbol": "CON_PLAYING .. CON_RECONNECTING"
   },
   "Init": {
    "source": "src/src/merc.h",
    "lines": [
     704,
     720
    ],
    "symbol": "CON_PLAYING"
   },
   "Saved": {
    "source": "src/src/save.c",
    "lines": [
     105,
     127
    ],
    "symbol": "save_char_obj"
   },
   "Save": {
    "source": "src/src/save.c",
    "lines": [
     105,
     127
    ],
    "symbol": "save_char_obj"
   },
   "Quit": {
    "source": "src/src/act_comm.c",
    "lines": [
     1541,
     1665
    ],
    "symbol": "do_quit"
   },
   "OtherLogins": {
    "source": "src/src/act_comm.c",
    "lines": [
     1637,
     1653
    ],
    "symbol": "do_quit"
   },
   "Delete": {
    "source": "src/src/pdelete.c",
    "lines": [
     50,
     142
    ],
    "symbol": "do_sdelete"
   },
   "Switch": {
    "source": "src/src/act_wiz.c",
    "lines": [
     1662,
     1712
    ],
    "symbol": "do_switch"
   },
   "Return": {
    "source": "src/src/act_wiz.c",
    "lines": [
     1714,
     1731
    ],
    "symbol": "do_return"
   },
   "Auction": {
    "source": "src/src/auction.c",
    "lines": [
     90,
     212
    ],
    "symbol": "auction_give"
   },
   "Gone": {
    "source": "src/src/handler.c",
    "lines": [
     1716,
     1862
    ],
    "symbol": "extract_char"
   },
   "SaveAndClose": {
    "source": "src/src/comm.c",
    "lines": [
     834,
     841
    ],
    "symbol": "game_loop_unix"
   },
   "WrongPassword": {
    "source": "src/src/comm.c",
    "lines": [
     3049,
     3088
    ],
    "symbol": "nanny"
   },
   "SavedTrace": {
    "source": "src/src/save.c",
    "lines": [
     331,
     382
    ],
    "symbol": "fwrite_char"
   },
   "Traces": {
    "source": "src/src/merc.h",
    "lines": [
     1953,
     1953
    ],
    "symbol": "PC_DATA.failures"
   },
   "Plain": {
    "source": "src/src/comm.c",
    "lines": [
     3615,
     3620
    ],
    "symbol": "nanny"
   }
  },
  "AuthThrottle": {
   "Entry": {
    "source": "src/src/comm.c",
    "lines": [
     628,
     633
    ],
    "symbol": "auth_fail_ent"
   },
   "Free": {
    "source": "src/src/comm.c",
    "lines": [
     651,
     652
    ],
    "symbol": "auth_fail_index"
   },
   "Expired": {
    "source": "src/src/comm.c",
    "lines": [
     650,
     650
    ],
    "symbol": "auth_fail_index"
   },
   "Matches": {
    "source": "src/src/comm.c",
    "lines": [
     644,
     658
    ],
    "symbol": "auth_fail_index"
   },
   "Found": {
    "source": "src/src/comm.c",
    "lines": [
     644,
     658
    ],
    "symbol": "auth_fail_index"
   },
   "Freed": {
    "source": "src/src/comm.c",
    "lines": [
     645,
     656
    ],
    "symbol": "auth_fail_index"
   },
   "FreeSlot": {
    "source": "src/src/comm.c",
    "lines": [
     645,
     661
    ],
    "symbol": "auth_fail_index"
   },
   "Index": {
    "source": "src/src/comm.c",
    "lines": [
     636,
     666
    ],
    "symbol": "auth_fail_index"
   },
   "LookedUp": {
    "source": "src/src/comm.c",
    "lines": [
     636,
     666
    ],
    "symbol": "auth_fail_index"
   },
   "Throttled": {
    "source": "src/src/comm.c",
    "lines": [
     668,
     673
    ],
    "symbol": "auth_is_throttled"
   },
   "Cleared": {
    "source": "src/src/comm.c",
    "lines": [
     686,
     699
    ],
    "symbol": "auth_clear_failures"
   },
   "Noted": {
    "source": "src/src/comm.c",
    "lines": [
     675,
     684
    ],
    "symbol": "auth_note_failure"
   },
   "Overrun": {
    "source": "src/src/comm.c",
    "lines": [
     660,
     664
    ],
    "symbol": "auth_fail_index"
   },
   "Refuse": {
    "source": "src/src/comm.c",
    "lines": [
     3040,
     3047
    ],
    "symbol": "nanny"
   },
   "Fail": {
    "source": "src/src/comm.c",
    "lines": [
     3049,
     3060
    ],
    "symbol": "nanny"
   },
   "Succeed": {
    "source": "src/src/comm.c",
    "lines": [
     3062,
     3071
    ],
    "symbol": "nanny"
   },
   "Init": {
    "source": "src/src/comm.c",
    "lines": [
     633,
     633
    ],
    "symbol": "auth_fails"
   }
  },
  "Market": {
   "Open": {
    "source": "src/src/auction.c",
    "lines": [
     18,
     21
    ],
    "symbol": "first_auction"
   },
   "Pledge": {
    "source": "src/src/auction.c",
    "lines": [
     1296,
     1303
    ],
    "symbol": "available_qps"
   },
   "Available": {
    "source": "src/src/auction.c",
    "lines": [
     1284,
     1325
    ],
    "symbol": "available_qps, available_gold"
   },
   "Reserved": {
    "source": "src/src/auction.c",
    "lines": [
     1296,
     1303
    ],
    "symbol": "available_qps"
   },
   "Gain": {
    "source": "src/src/auction.c",
    "lines": [
     180,
     191
    ],
    "symbol": "auction_give"
   },
   "Take": {
    "source": "src/src/auction.c",
    "lines": [
     172,
     172
    ],
    "symbol": "auction_give"
   },
   "Lose": {
    "source": "src/src/auction.c",
    "lines": [
     569,
     569
    ],
    "symbol": "auction_do"
   },
   "MayAuction": {
    "source": "src/src/auction.c",
    "lines": [
     221,
     343
    ],
    "symbol": "valid_auction_obj"
   },
   "AuctionAdd": {
    "source": "src/src/auction.c",
    "lines": [
     415,
     596
    ],
    "symbol": "auction_do"
   },
   "ToBeat": {
    "source": "src/src/auction.c",
    "lines": [
     639,
     655
    ],
    "symbol": "auction_do"
   },
   "Has": {
    "source": "src/src/auction.c",
    "lines": [
     640,
     650
    ],
    "symbol": "auction_do"
   },
   "Bid": {
    "source": "src/src/auction.c",
    "lines": [
     598,
     698
    ],
    "symbol": "auction_do"
   },
   "Aged": {
    "source": "src/src/auction.c",
    "lines": [
     1243,
     1249
    ],
    "symbol": "auc_update"
   },
   "Due": {
    "source": "src/src/auction.c",
    "lines": [
     1245,
     1249
    ],
    "symbol": "auc_update"
   },
   "AucUpdate": {
    "source": "src/src/auction.c",
    "lines": [
     1231,
     1281
    ],
    "symbol": "auc_update"
   },
   "Tick": {
    "source": "src/src/auction.c",
    "lines": [
     1231,
     1281
    ],
    "symbol": "auc_update"
   },
   "ForceEnd": {
    "source": "src/src/auction.c",
    "lines": [
     393,
     413
    ],
    "symbol": "auction_do"
   },
   "Winner": {
    "source": "src/src/auction.c",
    "lines": [
     73,
     86
    ],
    "symbol": "auction_end"
   },
   "Settled": {
    "source": "src/src/auction.c",
    "lines": [
     167,
     191
    ],
    "symbol": "auction_give"
   },
   "ToSave": {
    "source": "src/src/auction.c",
    "lines": [
     197,
     212
    ],
    "symbol": "auction_give"
   },
   "Give": {
    "source": "src/src/auction.c",
    "lines": [
     89,
     218
    ],
    "symbol": "auction_give"
   },
   "End": {
    "source": "src/src/auction.c",
    "lines": [
     73,
     86
    ],
    "symbol": "auction_end"
   },
   "Cancel": {
    "source": "src/src/auction.c",
    "lines": [
     364,
     391
    ],
    "symbol": "auction_do"
   },
   "SaveAuctions": {
    "source": "src/src/auction.c",
    "lines": [
     1202,
     1229
    ],
    "symbol": "save_auctions"
   },
   "Restart": {
    "source": "src/src/auction.c",
    "lines": [
     1149,
     1200
    ],
    "symbol": "load_auctions"
   },
   "Clear": {
    "source": "src/src/trade.c",
    "lines": [
     15,
     32
    ],
    "symbol": "trade_clear"
   },
   "Cleared": {
    "source": "src/src/trade.c",
    "lines": [
     15,
     32
    ],
    "symbol": "trade_clear"
   },
   "Abort": {
    "source": "src/src/trade.c",
    "lines": [
     34,
     50
    ],
    "symbol": "trade_abort"
   },
   "TradeStart": {
    "source": "src/src/trade.c",
    "lines": [
     181,
     231
    ],
    "symbol": "do_trade"
   },
   "TradeAbort": {
    "source": "src/src/trade.c",
    "lines": [
     239,
     242
    ],
    "symbol": "do_trade"
   },
   "OpenToChange": {
    "source": "src/src/trade.c",
    "lines": [
     254,
     257
    ],
    "symbol": "do_trade"
   },
   "TradeAdd": {
    "source": "src/src/trade.c",
    "lines": [
     244,
     400
    ],
    "symbol": "do_trade"
   },
   "TradeGold": {
    "source": "src/src/trade.c",
    "lines": [
     422,
     466
    ],
    "symbol": "do_trade"
   },
   "Transferred": {
    "source": "src/src/trade.c",
    "lines": [
     52,
     100
    ],
    "symbol": "trade_transfer"
   },
   "TradeAccept": {
    "source": "src/src/trade.c",
    "lines": [
     402,
     420
    ],
    "symbol": "do_trade"
   },
   "TradeFinish": {
    "source": "src/src/trade.c",
    "lines": [
     102,
     129
    ],
    "symbol": "trade_finish"
   },
   "BankDeposit": {
    "source": "src/src/act_info.c",
    "lines": [
     5745,
     5769
    ],
    "symbol": "do_bank"
   },
   "BankWithdraw": {
    "source": "src/src/act_info.c",
    "lines": [
     5802,
     5836
    ],
    "symbol": "do_bank"
   },
   "CashIn": {
    "source": "src/src/act_info.c",
    "lines": [
     5770,
     5799
    ],
    "symbol": "do_bank"
   },
   "MakeToken": {
    "source": "src/src/act_info.c",
    "lines": [
     7714,
     7781
    ],
    "symbol": "do_token"
   },
   "TreasuryDeposit": {
    "source": "src/src/treasury.c",
    "lines": [
     223,
     309
    ],
    "symbol": "do_treasury"
   },
   "TreasuryWithdraw": {
    "source": "src/src/treasury.c",
    "lines": [
     136,
     221
    ],
    "symbol": "do_treasury"
   },
   "SaveTreasuries": {
    "source": "src/src/treasury.c",
    "lines": [
     87,
     116
    ],
    "symbol": "save_treasuries"
   },
   "Init": {
    "source": "src/src/treasury.c",
    "lines": [
     21,
     85
    ],
    "symbol": "load_treasuries"
   },
   "SpendQp": {
    "source": "src/src/spendqp.c",
    "lines": [
     436,
     540
    ],
    "symbol": "do_qpspend"
   },
   "Tax": {
    "source": "src/src/special.c",
    "lines": [
     1773,
     1808
    ],
    "symbol": "spec_tax_man"
   },
   "Enter": {
    "source": "src/src/comm.c",
    "lines": [
     3486,
     3541
    ],
    "symbol": "nanny"
   },
   "Quit": {
    "source": "src/src/act_comm.c",
    "lines": [
     1541,
     1665
    ],
    "symbol": "do_quit"
   },
   "Delete": {
    "source": "src/src/pdelete.c",
    "lines": [
     50,
     142
    ],
    "symbol": "do_sdelete"
   },
   "Involved": {
    "source": "src/src/pdelete.c",
    "lines": [
     103,
     111
    ],
    "symbol": "do_sdelete"
   },
   "SaveChar": {
    "source": "src/src/save.c",
    "lines": [
     105,
     127
    ],
    "symbol": "save_char_obj"
   },
   "Now": {
    "source": "src/src/save.c",
    "lines": [
     105,
     127
    ],
    "symbol": "save_char_obj"
   }
  },
  "Objects": {
   "Above": {
    "source": "src/src/handler.c",
    "lines": [
     1494,
     1507
    ],
    "symbol": "obj_to_obj"
   },
   "Holder": {
    "source": "src/src/handler.c",
    "lines": [
     1494,
     1496
    ],
    "symbol": "obj_to_obj"
   },
   "Burden": {
    "source": "src/src/handler.c",
    "lines": [
     2301,
     2305
    ],
    "symbol": "get_obj_weight"
   },
   "Inside": {
    "source": "src/src/handler.c",
    "lines": [
     2306,
     2307
    ],
    "symbol": "get_obj_weight"
   },
   "Held": {
    "source": "src/src/handler.c",
    "lines": [
     1025,
     1026
    ],
    "symbol": "obj_to_char"
   },
   "Heft": {
    "source": "src/src/handler.c",
    "lines": [
     2297,
     2310
    ],
    "symbol": "get_obj_weight"
   },
   "Exists": {
    "source": "src/src/handler.c",
    "lines": [
     1635,
     1708
    ],
    "symbol": "extract_obj"
   },
   "Worn": {
    "source": "src/src/handler.c",
    "lines": [
     1140,
     1157
    ],
    "symbol": "get_eq_char"
   },
   "Burning": {
    "source": "src/src/handler.c",
    "lines": [
     825,
     826
    ],
    "symbol": "char_to_room"
   },
   "Unequip": {
    "source": "src/src/handler.c",
    "lines": [
     1272,
     1299
    ],
    "symbol": "unequip_char"
   },
   "FromChar": {
    "source": "src/src/handler.c",
    "lines": [
     1059,
     1090
    ],
    "symbol": "obj_from_char"
   },
   "ToChar": {
    "source": "src/src/handler.c",
    "lines": [
     1025,
     1032
    ],
    "symbol": "obj_to_char"
   },
   "FromRoom": {
    "source": "src/src/handler.c",
    "lines": [
     1418,
     1459
    ],
    "symbol": "obj_from_room"
   },
   "ToRoom": {
    "source": "src/src/handler.c",
    "lines": [
     1464,
     1481
    ],
    "symbol": "obj_to_room"
   },
   "Carrier": {
    "source": "src/src/handler.c",
    "lines": [
     1504,
     1507
    ],
    "symbol": "obj_to_obj"
   },
   "ToObj": {
    "source": "src/src/handler.c",
    "lines": [
     1486,
     1514
    ],
    "symbol": "obj_to_obj"
   },
   "FromObj": {
    "source": "src/src/handler.c",
    "lines": [
     1519,
     1559
    ],
    "symbol": "obj_from_obj"
   },
   "Out": {
    "source": "src/src/handler.c",
    "lines": [
     1625,
     1630
    ],
    "symbol": "extract_obj"
   },
   "Extract": {
    "source": "src/src/handler.c",
    "lines": [
     1613,
     1710
    ],
    "symbol": "extract_obj"
   },
   "Equip": {
    "source": "src/src/handler.c",
    "lines": [
     1160,
     1213
    ],
    "symbol": "equip_char"
   },
   "Left": {
    "source": "src/src/handler.c",
    "lines": [
     762,
     779
    ],
    "symbol": "char_from_room"
   },
   "Entered": {
    "source": "src/src/handler.c",
    "lines": [
     806,
     826
    ],
    "symbol": "char_to_room"
   },
   "Coins": {
    "source": "src/src/handler.c",
    "lines": [
     2231,
     2259
    ],
    "symbol": "create_money"
   },
   "Carried": {
    "source": "src/src/handler.c",
    "lines": [
     2080,
     2098
    ],
    "symbol": "get_obj_carry"
   },
   "Near": {
    "source": "src/src/handler.c",
    "lines": [
     2178,
     2197
    ],
    "symbol": "get_obj_here_r"
   },
   "ExtractAll": {
    "source": "src/src/handler.c",
    "lines": [
     1779,
     1781
    ],
    "symbol": "extract_char"
   },
   "Quit": {
    "source": "src/src/handler.c",
    "lines": [
     1767,
     1862
    ],
    "symbol": "extract_char"
   },
   "CanCarry": {
    "source": "src/src/act_obj.c",
    "lines": [
     71,
     85
    ],
    "symbol": "get_obj"
   },
   "Gotten": {
    "source": "src/src/act_obj.c",
    "lines": [
     102,
     134
    ],
    "symbol": "get_obj"
   },
   "Affordable": {
    "source": "src/src/act_obj.c",
    "lines": [
     103,
     111
    ],
    "symbol": "get_obj"
   },
   "Get": {
    "source": "src/src/act_obj.c",
    "lines": [
     137,
     211
    ],
    "symbol": "do_get"
   },
   "GetFrom": {
    "source": "src/src/act_obj.c",
    "lines": [
     212,
     343
    ],
    "symbol": "do_get"
   },
   "Fits": {
    "source": "src/src/act_obj.c",
    "lines": [
     395,
     415
    ],
    "symbol": "do_put"
   },
   "Put": {
    "source": "src/src/act_obj.c",
    "lines": [
     345,
     525
    ],
    "symbol": "do_put"
   },
   "Drop": {
    "source": "src/src/act_obj.c",
    "lines": [
     584,
     639
    ],
    "symbol": "do_drop"
   },
   "Heap": {
    "source": "src/src/act_obj.c",
    "lines": [
     560,
     574
    ],
    "symbol": "do_drop"
   },
   "DropCoins": {
    "source": "src/src/act_obj.c",
    "lines": [
     542,
     582
    ],
    "symbol": "do_drop"
   },
   "Give": {
    "source": "src/src/act_obj.c",
    "lines": [
     707,
     763
    ],
    "symbol": "do_give"
   },
   "GiveCoins": {
    "source": "src/src/act_obj.c",
    "lines": [
     663,
     705
    ],
    "symbol": "do_give"
   },
   "Replaced": {
    "source": "src/src/act_obj.c",
    "lines": [
     1095,
     1122
    ],
    "symbol": "remove_obj"
   },
   "Wear": {
    "source": "src/src/act_obj.c",
    "lines": [
     1210,
     1358
    ],
    "symbol": "wear_obj"
   },
   "Remove": {
    "source": "src/src/act_obj.c",
    "lines": [
     1657,
     1682
    ],
    "symbol": "do_remove"
   },
   "Sacrifice": {
    "source": "src/src/act_obj.c",
    "lines": [
     1684,
     1746
    ],
    "symbol": "do_sacrifice"
   },
   "Consume": {
    "source": "src/src/act_obj.c",
    "lines": [
     1932,
     1976
    ],
    "symbol": "do_quaff"
   },
   "Steal": {
    "source": "src/src/act_obj.c",
    "lines": [
     2201,
     2375
    ],
    "symbol": "do_steal"
   },
   "StealCoins": {
    "source": "src/src/act_obj.c",
    "lines": [
     2316,
     2342
    ],
    "symbol": "do_steal"
   },
   "Buy": {
    "source": "src/src/act_obj.c",
    "lines": [
     2615,
     2733
    ],
    "symbol": "do_buy"
   },
   "Till": {
    "source": "src/src/act_obj.c",
    "lines": [
     2884,
     2887
    ],
    "symbol": "do_sell"
   },
   "Sell": {
    "source": "src/src/act_obj.c",
    "lines": [
     2830,
     2899
    ],
    "symbol": "do_sell"
   },
   "Donate": {
    "source": "src/src/act_obj.c",
    "lines": [
     2943,
     3028
    ],
    "symbol": "do_donate"
   },
   "ToCorpse": {
    "source": "src/src/fight.c",
    "lines": [
     2355,
     2374
    ],
    "symbol": "make_corpse"
   },
   "MobDies": {
    "source": "src/src/fight.c",
    "lines": [
     2238,
     2262
    ],
    "symbol": "make_corpse"
   },
   "PlayerDies": {
    "source": "src/src/fight.c",
    "lines": [
     2264,
     2406
    ],
    "symbol": "make_corpse"
   },
   "Burns": {
    "source": "src/src/update.c",
    "lines": [
     1065,
     1076
    ],
    "symbol": "char_update"
   },
   "Decay": {
    "source": "src/src/update.c",
    "lines": [
     1302,
     1419
    ],
    "symbol": "obj_update"
   },
   "ResetMob": {
    "source": "src/src/db.c",
    "lines": [
     1944,
     1987
    ],
    "symbol": "reset_area"
   },
   "ResetObj": {
    "source": "src/src/db.c",
    "lines": [
     1988,
     2093
    ],
    "symbol": "reset_area"
   },
   "Kitted": {
    "source": "src/src/db.c",
    "lines": [
     2098,
     2156
    ],
    "symbol": "reset_area"
   },
   "Fresh": {
    "source": "src/src/db.c",
    "lines": [
     2320,
     2345
    ],
    "symbol": "create_object"
   },
   "Reconnect": {
    "source": "src/src/comm.c",
    "lines": [
     3955,
     3962
    ],
    "symbol": "check_reconnect"
   },
   "Enter": {
    "source": "src/src/comm.c",
    "lines": [
     3486,
     3541
    ],
    "symbol": "nanny"
   },
   "Move": {
    "source": "src/src/act_move.c",
    "lines": [
     420,
     440
    ],
    "symbol": "move_char"
   },
   "People": {
    "source": "src/src/handler.c",
    "lines": [
     811,
     814
    ],
    "symbol": "char_to_room"
   }
  },
  "Quest": {
   "StartQuest": {
    "source": "src/src/quest.c",
    "lines": [
     259,
     268
    ],
    "symbol": "do_quest"
   },
   "Stop": {
    "source": "src/src/quest.c",
    "lines": [
     250,
     257
    ],
    "symbol": "do_quest"
   },
   "Toggle": {
    "source": "src/src/quest.c",
    "lines": [
     270,
     279
    ],
    "symbol": "do_quest"
   },
   "ChooseMob": {
    "source": "src/src/quest.c",
    "lines": [
     281,
     307
    ],
    "symbol": "do_quest"
   },
   "ChooseTarget": {
    "source": "src/src/quest.c",
    "lines": [
     309,
     335
    ],
    "symbol": "do_quest"
   },
   "Manual": {
    "source": "src/src/quest.c",
    "lines": [
     337,
     424
    ],
    "symbol": "do_quest"
   },
   "Generate": {
    "source": "src/src/quest.c",
    "lines": [
     763,
     939
    ],
    "symbol": "generate_auto_quest"
   },
   "Begin": {
    "source": "src/src/quest.c",
    "lines": [
     897,
     938
    ],
    "symbol": "generate_auto_quest"
   },
   "Failed": {
    "source": "src/src/quest.c",
    "lines": [
     873,
     903
    ],
    "symbol": "generate_auto_quest"
   },
   "Told": {
    "source": "src/src/quest.c",
    "lines": [
     570,
     601
    ],
    "symbol": "quest_inform"
   },
   "Clear": {
    "source": "src/src/quest.c",
    "lines": [
     720,
     761
    ],
    "symbol": "clear_quest"
   },
   "Cleared": {
    "source": "src/src/quest.c",
    "lines": [
     736,
     737
    ],
    "symbol": "clear_quest"
   },
   "Restore": {
    "source": "src/src/quest.c",
    "lines": [
     738,
     749
    ],
    "symbol": "clear_quest"
   },
   "Tick": {
    "source": "src/src/update.c",
    "lines": [
     2228,
     2262
    ],
    "symbol": "quest_update"
   },
   "ToChar": {
    "source": "src/src/handler.c",
    "lines": [
     1004,
     1022
    ],
    "symbol": "obj_to_char"
   },
   "Relocated": {
    "source": "src/src/handler.c",
    "lines": [
     1592,
     1612
    ],
    "symbol": "extract_obj"
   },
   "RoomOf": {
    "source": "src/src/handler.c",
    "lines": [
     1592,
     1612
    ],
    "symbol": "extract_obj"
   },
   "Destroy": {
    "source": "src/src/handler.c",
    "lines": [
     1592,
     1612
    ],
    "symbol": "extract_obj"
   },
   "Rotten": {
    "source": "src/src/handler.c",
    "lines": [
     1615,
     1623
    ],
    "symbol": "extract_obj"
   },
   "Missed": {
    "source": "src/src/handler.c",
    "lines": [
     1763,
     1765
    ],
    "symbol": "extract_char"
   },
   "Leave": {
    "source": "src/src/handler.c",
    "lines": [
     1713,
     1862
    ],
    "symbol": "extract_char"
   },
   "Dropped": {
    "source": "src/src/handler.c",
    "lines": [
     1779,
     1795
    ],
    "symbol": "extract_char"
   },
   "ThiefAfter": {
    "source": "src/src/fight.c",
    "lines": [
     2565,
     2567
    ],
    "symbol": "raw_kill"
   },
   "Kill": {
    "source": "src/src/fight.c",
    "lines": [
     2493,
     2628
    ],
    "symbol": "raw_kill"
   },
   "Decay": {
    "source": "src/src/update.c",
    "lines": [
     1378,
     1419
    ],
    "symbol": "obj_update"
   },
   "Give": {
    "source": "src/src/act_obj.c",
    "lines": [
     727,
     826
    ],
    "symbol": "do_give"
   },
   "Get": {
    "source": "src/src/act_obj.c",
    "lines": [
     137,
     211
    ],
    "symbol": "do_get"
   },
   "Drop": {
    "source": "src/src/act_obj.c",
    "lines": [
     584,
     639
    ],
    "symbol": "do_drop"
   },
   "Donate": {
    "source": "src/src/act_obj.c",
    "lines": [
     2943,
     3028
    ],
    "symbol": "do_donate"
   },
   "Steal": {
    "source": "src/src/act_obj.c",
    "lines": [
     2343,
     2375
    ],
    "symbol": "do_steal"
   },
   "Put": {
    "source": "src/src/act_obj.c",
    "lines": [
     163,
     176
    ],
    "symbol": "do_get"
   },
   "Move": {
    "source": "src/src/act_move.c",
    "lines": [
     420,
     440
    ],
    "symbol": "move_char"
   }
  },
  "Company": {
   "UpdatePos": {
    "source": "src/src/fight.c",
    "lines": [
     2077,
     2101
    ],
    "symbol": "update_pos"
   },
   "Stand": {
    "source": "src/src/fight.c",
    "lines": [
     2077,
     2101
    ],
    "symbol": "update_pos"
   },
   "SetFighting": {
    "source": "src/src/fight.c",
    "lines": [
     2107,
     2142
    ],
    "symbol": "set_fighting"
   },
   "Enemies": {
    "source": "src/src/fight.c",
    "lines": [
     2163,
     2177
    ],
    "symbol": "stop_fighting"
   },
   "StopFighting": {
    "source": "src/src/fight.c",
    "lines": [
     2148,
     2178
    ],
    "symbol": "stop_fighting"
   },
   "RawKill": {
    "source": "src/src/fight.c",
    "lines": [
     2494,
     2628
    ],
    "symbol": "raw_kill"
   },
   "Flee": {
    "source": "src/src/fight.c",
    "lines": [
     3426,
     3529
    ],
    "symbol": "do_flee"
   },
   "Escape": {
    "source": "src/src/fight.c",
    "lines": [
     3426,
     3529
    ],
    "symbol": "do_flee"
   },
   "Met": {
    "source": "src/src/fight.c",
    "lines": [
     964,
     1000
    ],
    "symbol": "damage"
   },
   "Hurt": {
    "source": "src/src/fight.c",
    "lines": [
     1480,
     1481
    ],
    "symbol": "damage"
   },
   "Blow": {
    "source": "src/src/fight.c",
    "lines": [
     906,
     1628
    ],
    "symbol": "damage"
   },
   "Blows": {
    "source": "src/src/fight.c",
    "lines": [
     550,
     657
    ],
    "symbol": "multi_hit"
   },
   "Beholden": {
    "source": "src/src/fight.c",
    "lines": [
     992,
     998
    ],
    "symbol": "damage"
   },
   "MultiHit": {
    "source": "src/src/fight.c",
    "lines": [
     550,
     657
    ],
    "symbol": "multi_hit"
   },
   "Assist": {
    "source": "src/src/fight.c",
    "lines": [
     488,
     538
    ],
    "symbol": "violence_update"
   },
   "Parted": {
    "source": "src/src/fight.c",
    "lines": [
     470,
     482
    ],
    "symbol": "violence_update"
   },
   "Turn": {
    "source": "src/src/fight.c",
    "lines": [
     116,
     544
    ],
    "symbol": "violence_update"
   },
   "Round": {
    "source": "src/src/fight.c",
    "lines": [
     116,
     544
    ],
    "symbol": "violence_update"
   },
   "Frenzied": {
    "source": "src/src/fight.c",
    "lines": [
     5302,
     5345
    ],
    "symbol": "do_frenzy"
   },
   "Frenzy": {
    "source": "src/src/fight.c",
    "lines": [
     5261,
     5301
    ],
    "symbol": "do_frenzy"
   },
   "Aimed": {
    "source": "src/src/fight.c",
    "lines": [
     4114,
     4132
    ],
    "symbol": "do_bash"
   },
   "Loyal": {
    "source": "src/src/fight.c",
    "lines": [
     3106,
     3109
    ],
    "symbol": "do_kill"
   },
   "do_kill": {
    "source": "src/src/fight.c",
    "lines": [
     3066,
     3120
    ],
    "symbol": "do_kill"
   },
   "do_murder": {
    "source": "src/src/fight.c",
    "lines": [
     3192,
     3243
    ],
    "symbol": "do_murder"
   },
   "do_backstab": {
    "source": "src/src/fight.c",
    "lines": [
     3244,
     3423
    ],
    "symbol": "do_backstab"
   },
   "do_punch": {
    "source": "src/src/fight.c",
    "lines": [
     4263,
     4328
    ],
    "symbol": "do_punch"
   },
   "do_knee": {
    "source": "src/src/fight.c",
    "lines": [
     4495,
     4566
    ],
    "symbol": "do_knee"
   },
   "do_kick": {
    "source": "src/src/fight.c",
    "lines": [
     4569,
     4643
    ],
    "symbol": "do_kick"
   },
   "do_headbutt": {
    "source": "src/src/fight.c",
    "lines": [
     4331,
     4401
    ],
    "symbol": "do_headbutt"
   },
   "do_charge": {
    "source": "src/src/fight.c",
    "lines": [
     4404,
     4492
    ],
    "symbol": "do_charge"
   },
   "do_bash": {
    "source": "src/src/fight.c",
    "lines": [
     4099,
     4185
    ],
    "symbol": "do_bash"
   },
   "do_grab": {
    "source": "src/src/fight.c",
    "lines": [
     5348,
     5442
    ],
    "symbol": "do_grab"
   },
   "do_stun": {
    "source": "src/src/fight.c",
    "lines": [
     5152,
     5237
    ],
    "symbol": "do_stun"
   },
   "Attack": {
    "source": "src/src/fight.c",
    "lines": [
     3114,
     3120
    ],
    "symbol": "do_kill"
   },
   "Strike": {
    "source": "src/src/fight.c",
    "lines": [
     4175,
     4180
    ],
    "symbol": "do_bash"
   },
   "Target": {
    "source": "src/src/fight.c",
    "lines": [
     3123,
     3183
    ],
    "symbol": "do_target"
   },
   "Circle": {
    "source": "src/src/fight.c",
    "lines": [
     3746,
     3948
    ],
    "symbol": "do_circle"
   },
   "Bash": {
    "source": "src/src/fight.c",
    "lines": [
     4162,
     4172
    ],
    "symbol": "do_bash"
   },
   "InNeed": {
    "source": "src/src/fight.c",
    "lines": [
     3559,
     3632
    ],
    "symbol": "do_rescue"
   },
   "Rescued": {
    "source": "src/src/fight.c",
    "lines": [
     3651,
     3656
    ],
    "symbol": "do_rescue"
   },
   "Rescue": {
    "source": "src/src/fight.c",
    "lines": [
     3532,
     3657
    ],
    "symbol": "do_rescue"
   },
   "MayLead": {
    "source": "src/src/act_comm.c",
    "lines": [
     1795,
     1812
    ],
    "symbol": "add_follower"
   },
   "Followers": {
    "source": "src/src/act_comm.c",
    "lines": [
     1861,
     1878
    ],
    "symbol": "die_follower"
   },
   "StopFollower": {
    "source": "src/src/act_comm.c",
    "lines": [
     1824,
     1858
    ],
    "symbol": "stop_follower"
   },
   "DieFollower": {
    "source": "src/src/act_comm.c",
    "lines": [
     1861,
     1878
    ],
    "symbol": "die_follower"
   },
   "Follow": {
    "source": "src/src/act_comm.c",
    "lines": [
     1728,
     1821
    ],
    "symbol": "do_follow"
   },
   "Quit": {
    "source": "src/src/act_comm.c",
    "lines": [
     1542,
     1665
    ],
    "symbol": "do_quit"
   },
   "Placed": {
    "source": "src/src/handler.c",
    "lines": [
     724,
     785
    ],
    "symbol": "char_from_room"
   },
   "Shift": {
    "source": "src/src/handler.c",
    "lines": [
     976,
     979
    ],
    "symbol": "char_to_room"
   },
   "Forgotten": {
    "source": "src/src/handler.c",
    "lines": [
     1805,
     1828
    ],
    "symbol": "extract_char"
   },
   "Extract": {
    "source": "src/src/handler.c",
    "lines": [
     1716,
     1860
    ],
    "symbol": "extract_char"
   },
   "Arrive": {
    "source": "src/src/handler.c",
    "lines": [
     791,
     988
    ],
    "symbol": "char_to_room"
   },
   "Present": {
    "source": "src/src/handler.c",
    "lines": [
     1775,
     1790
    ],
    "symbol": "extract_char"
   },
   "Fresh": {
    "source": "src/src/db.c",
    "lines": [
     2538,
     2695
    ],
    "symbol": "free_char"
   },
   "Mount": {
    "source": "src/src/mount.c",
    "lines": [
     35,
     121
    ],
    "symbol": "do_mount"
   },
   "Dismount": {
    "source": "src/src/mount.c",
    "lines": [
     147,
     213
    ],
    "symbol": "do_dismount"
   },
   "Dismounted": {
    "source": "src/src/mount.c",
    "lines": [
     193,
     208
    ],
    "symbol": "do_dismount"
   },
   "EndHunts": {
    "source": "src/src/hunt.c",
    "lines": [
     255,
     274
    ],
    "symbol": "end_hunt"
   },
   "MobHunt": {
    "source": "src/src/hunt.c",
    "lines": [
     300,
     501
    ],
    "symbol": "mob_hunt"
   },
   "MoveChar": {
    "source": "src/src/act_move.c",
    "lines": [
     84,
     475
    ],
    "symbol": "move_char"
   },
   "Walk": {
    "source": "src/src/act_move.c",
    "lines": [
     84,
     475
    ],
    "symbol": "move_char"
   },
   "CanGo": {
    "source": "src/src/act_move.c",
    "lines": [
     207,
     218
    ],
    "symbol": "move_char"
   },
   "Party": {
    "source": "src/src/act_move.c",
    "lines": [
     460,
     469
    ],
    "symbol": "move_char"
   },
   "ShiftAll": {
    "source": "src/src/act_move.c",
    "lines": [
     460,
     469
    ],
    "symbol": "move_char"
   },
   "Recall": {
    "source": "src/src/act_move.c",
    "lines": [
     1253,
     1359
    ],
    "symbol": "do_recall"
   },
   "Rest": {
    "source": "src/src/act_move.c",
    "lines": [
     1008,
     1062
    ],
    "symbol": "do_rest"
   },
   "Wake": {
    "source": "src/src/act_move.c",
    "lines": [
     967,
     1005
    ],
    "symbol": "do_stand"
   },
   "Spell": {
    "source": "src/src/magic.c",
    "lines": [
     719,
     747
    ],
    "symbol": "do_cast"
   },
   "Cast": {
    "source": "src/src/magic.c",
    "lines": [
     327,
     749
    ],
    "symbol": "do_cast"
   },
   "Charm": {
    "source": "src/src/magic.c",
    "lines": [
     1166,
     1223
    ],
    "symbol": "spell_charm_person"
   },
   "aggr_update": {
    "source": "src/src/update.c",
    "lines": [
     1436,
     1544
    ],
    "symbol": "aggr_update"
   },
   "Suffer": {
    "source": "src/src/update.c",
    "lines": [
     1229,
     1248
    ],
    "symbol": "char_update"
   },
   "WearOff": {
    "source": "src/src/update.c",
    "lines": [
     1145,
     1153
    ],
    "symbol": "char_update"
   },
   "Rebel": {
    "source": "src/src/update.c",
    "lines": [
     1206,
     1226
    ],
    "symbol": "char_update"
   },
   "Heal": {
    "source": "src/src/update.c",
    "lines": [
     985,
     992
    ],
    "symbol": "gain_update"
   },
   "spec_cast": {
    "source": "src/src/special.c",
    "lines": [
     539,
     611
    ],
    "symbol": "spec_cast_mage"
   },
   "Able": {
    "source": "src/src/interp.c",
    "lines": [
     835,
     868
    ],
    "symbol": "interpret"
   },
   "Disengaged": {
    "source": "src/src/handler.c",
    "lines": [
     779,
     780
    ],
    "symbol": "char_from_room"
   },
   "Gorable": {
    "source": "src/src/fight.c",
    "lines": [
     5318,
     5325
    ],
    "symbol": "do_frenzy"
   },
   "Goring": {
    "source": "src/src/fight.c",
    "lines": [
     5302,
     5345
    ],
    "symbol": "do_frenzy"
   },
   "Gored": {
    "source": "src/src/fight.c",
    "lines": [
     5302,
     5345
    ],
    "symbol": "do_frenzy"
   },
   "Disband": {
    "source": "src/src/act_comm.c",
    "lines": [
     1870,
     1875
    ],
    "symbol": "die_follower"
   },
   "Unfollowed": {
    "source": "src/src/act_comm.c",
    "lines": [
     1865,
     1866
    ],
    "symbol": "die_follower"
   },
   "SetAt": {
    "source": "src/src/handler.c",
    "lines": [
     775,
     777
    ],
    "symbol": "char_from_room"
   },
   "Mounted": {
    "source": "src/src/handler.c",
    "lines": [
     976,
     979
    ],
    "symbol": "char_to_room"
   },
   "Followed": {
    "source": "src/src/handler.c",
    "lines": [
     976,
     979
    ],
    "symbol": "char_to_room"
   },
   "Thrown": {
    "source": "src/src/handler.c",
    "lines": [
     1814,
     1817
    ],
    "symbol": "extract_char"
   },
   "Unhorsed": {
    "source": "src/src/handler.c",
    "lines": [
     1814,
     1819
    ],
    "symbol": "extract_char"
   },
   "Revived": {
    "source": "src/src/fight.c",
    "lines": [
     2568,
     2628
    ],
    "symbol": "raw_kill"
   },
   "Follows": {
    "source": "src/src/act_move.c",
    "lines": [
     460,
     469
    ],
    "symbol": "move_char"
   },
   "Flighty": {
    "source": "src/src/fight.c",
    "lines": [
     1608,
     1626
    ],
    "symbol": "damage"
   },
   "Foes": {
    "source": "src/src/fight.c",
    "lines": [
     166,
     193
    ],
    "symbol": "violence_update"
   },
   "Retargeted": {
    "source": "src/src/fight.c",
    "lines": [
     166,
     193
    ],
    "symbol": "violence_update"
   },
   "Enchanting": {
    "source": "src/src/fight.c",
    "lines": [
     423,
     457
    ],
    "symbol": "violence_update"
   },
   "Struggle": {
    "source": "src/src/fight.c",
    "lines": [
     458,
     544
    ],
    "symbol": "violence_update"
   },
   "Join": {
    "source": "src/src/fight.c",
    "lines": [
     5068,
     5148
    ],
    "symbol": "do_assist"
   }
  },
  "Dns": {
   "Matches": {
    "source": "src/src/dns.c",
    "lines": [
     144,
     162
    ],
    "symbol": "dns_exec"
   },
   "UnderWay": {
    "source": "src/src/dns.c",
    "lines": [
     153,
     162
    ],
    "symbol": "dns_exec"
   },
   "Ask": {
    "source": "src/src/dns.c",
    "lines": [
     171,
     211
    ],
    "symbol": "dns_exec"
   },
   "Exec": {
    "source": "src/src/dns.c",
    "lines": [
     136,
     225
    ],
    "symbol": "dns_exec"
   },
   "Least": {
    "source": "src/src/dns.c",
    "lines": [
     481,
     484
    ],
    "symbol": "dns_packet_parse"
   },
   "GotName": {
    "source": "src/src/dns.c",
    "lines": [
     646,
     659
    ],
    "symbol": "extract_rrs"
   },
   "Confirmed": {
    "source": "src/src/dns.c",
    "lines": [
     609,
     622
    ],
    "symbol": "extract_rrs"
   },
   "Renamed": {
    "source": "src/src/dns.c",
    "lines": [
     628,
     640
    ],
    "symbol": "extract_rrs"
   },
   "GotAddress": {
    "source": "src/src/dns.c",
    "lines": [
     604,
     644
    ],
    "symbol": "extract_rrs"
   },
   "Answer": {
    "source": "src/src/dns.c",
    "lines": [
     456,
     668
    ],
    "symbol": "dns_packet_parse"
   },
   "Lose": {
    "source": "src/src/dns.c",
    "lines": [
     486,
     538
    ],
    "symbol": "dns_packet_parse"
   },
   "Left": {
    "source": "src/src/dns.c",
    "lines": [
     678,
     682
    ],
    "symbol": "dns_update"
   },
   "Older": {
    "source": "src/src/dns.c",
    "lines": [
     678,
     682
    ],
    "symbol": "dns_update"
   },
   "InOrder": {
    "source": "src/src/dns.c",
    "lines": [
     675,
     683
    ],
    "symbol": "dns_update"
   },
   "LeftOf": {
    "source": "src/src/dns.c",
    "lines": [
     675,
     683
    ],
    "symbol": "dns_update"
   },
   "Second": {
    "source": "src/src/dns.c",
    "lines": [
     671,
     699
    ],
    "symbol": "dns_update"
   },
   "Known": {
    "source": "src/src/dns.c",
    "lines": [
     227,
     237
    ],
    "symbol": "dns_lookup"
   },
   "DnsInit": {
    "source": "src/src/dns.c",
    "lines": [
     38,
     60
    ],
    "symbol": "dns_setup"
   },
   "Break": {
    "source": "src/src/comm.c",
    "lines": [
     873,
     889
    ],
    "symbol": "game_loop"
   },
   "NewDescriptor": {
    "source": "src/src/comm.c",
    "lines": [
     1075,
     1097
    ],
    "symbol": "new_descriptor"
   },
   "CloseSocket": {
    "source": "src/src/comm.c",
    "lines": [
     1165,
     1262
    ],
    "symbol": "close_socket"
   },
   "Arrive": {
    "source": "src/src/comm.c",
    "lines": [
     3935,
     3952
    ],
    "symbol": "check_reconnect"
   },
   "Leave": {
    "source": "src/src/act_comm.c",
    "lines": [
     1542,
     1665
    ],
    "symbol": "do_quit"
   },
   "AskAgain": {
    "source": "src/src/dns.c",
    "lines": [
     152,
     225
    ],
    "symbol": "dns_exec"
   },
   "AskFirst": {
    "source": "src/src/dns.c",
    "lines": [
     164,
     225
    ],
    "symbol": "dns_exec"
   },
   "ArriveGreen": {
    "source": "src/src/comm.c",
    "lines": [
     3623,
     3660
    ],
    "symbol": "nanny"
   }
  },
  "Gate": {
   "Refused": {
    "source": "src/src/comm.c",
    "lines": [
     3040,
     3047
    ],
    "symbol": "nanny"
   },
   "Wrong": {
    "source": "src/src/comm.c",
    "lines": [
     3049,
     3060
    ],
    "symbol": "nanny"
   },
   "LogIn": {
    "source": "src/src/comm.c",
    "lines": [
     3062,
     3111
    ],
    "symbol": "nanny"
   },
   "Clock": {
    "source": "src/src/comm.c",
    "lines": [
     722,
     996
    ],
    "symbol": "game_loop_unix"
   },
   "HungUp": {
    "source": "src/src/comm.c",
    "lines": [
     1165,
     1262
    ],
    "symbol": "close_socket"
   },
   "AtPassword": {
    "source": "src/src/comm.c",
    "lines": [
     3036,
     3047
    ],
    "symbol": "nanny"
   },
   "LogInGreen": {
    "source": "src/src/comm.c",
    "lines": [
     3062,
     3111
    ],
    "symbol": "nanny"
   }
  },
  "Writing": {
   "Start": {
    "source": "src/src/write.c",
    "lines": [
     22,
     57
    ],
    "symbol": "write_start"
   },
   "Session": {
    "source": "src/src/write.c",
    "lines": [
     67,
     77
    ],
    "symbol": "write_interpret"
   },
   "Line": {
    "source": "src/src/write.c",
    "lines": [
     80,
     96
    ],
    "symbol": "write_interpret"
   },
   "Finish": {
    "source": "src/src/write.c",
    "lines": [
     97,
     146
    ],
    "symbol": "write_interpret"
   },
   "Cancel": {
    "source": "src/src/write.c",
    "lines": [
     97,
     146
    ],
    "symbol": "write_interpret"
   },
   "Unfinished": {
    "source": "src/src/write.c",
    "lines": [
     402,
     427
    ],
    "symbol": "abort_writing"
   },
   "Ended": {
    "source": "src/src/write.c",
    "lines": [
     402,
     427
    ],
    "symbol": "abort_writing"
   },
   "Writes": {
    "source": "src/src/write.c",
    "lines": [
     54,
     55
    ],
    "symbol": "write_start"
   },
   "Write": {
    "source": "src/src/board.c",
    "lines": [
     612,
     716
    ],
    "symbol": "do_write"
   },
   "Edit": {
    "source": "src/src/board.c",
    "lines": [
     778,
     843
    ],
    "symbol": "do_edit_message"
   },
   "Busy": {
    "source": "src/src/board.c",
    "lines": [
     504,
     509
    ],
    "symbol": "do_delete"
   },
   "Delete": {
    "source": "src/src/board.c",
    "lines": [
     416,
     521
    ],
    "symbol": "do_delete"
   },
   "Configure": {
    "source": "src/src/board.c",
    "lines": [
     97,
     160
    ],
    "symbol": "do_board"
   },
   "BoardFile": {
    "source": "src/src/board.c",
    "lines": [
     363,
     413
    ],
    "symbol": "save_board"
   },
   "AllOf": {
    "source": "src/src/board.c",
    "lines": [
     363,
     413
    ],
    "symbol": "save_board"
   },
   "TextOf": {
    "source": "src/src/board.c",
    "lines": [
     685,
     700
    ],
    "symbol": "do_write"
   },
   "Kept": {
    "source": "src/src/board.c",
    "lines": [
     743,
     745
    ],
    "symbol": "finished_editing"
   },
   "Unwrite": {
    "source": "src/src/board.c",
    "lines": [
     721,
     742
    ],
    "symbol": "finished_editing"
   },
   "Crash": {
    "source": "src/src/board.c",
    "lines": [
     252,
     360
    ],
    "symbol": "load_board"
   },
   "Send": {
    "source": "src/src/act_comm.c",
    "lines": [
     193,
     300
    ],
    "symbol": "do_note"
   },
   "Delivered": {
    "source": "src/src/act_comm.c",
    "lines": [
     83,
     131
    ],
    "symbol": "note_finished"
   },
   "Read": {
    "source": "src/src/act_comm.c",
    "lines": [
     369,
     426
    ],
    "symbol": "do_note"
   },
   "Remove": {
    "source": "src/src/act_comm.c",
    "lines": [
     428,
     475
    ],
    "symbol": "do_note"
   },
   "Letters": {
    "source": "src/src/act_comm.c",
    "lines": [
     255,
     268
    ],
    "symbol": "do_note"
   },
   "Quit": {
    "source": "src/src/act_comm.c",
    "lines": [
     1542,
     1665
    ],
    "symbol": "do_quit"
   },
   "NoteFile": {
    "source": "src/src/save.c",
    "lines": [
     2297,
     2328
    ],
    "symbol": "save_notes"
   },
   "Attacked": {
    "source": "src/src/fight.c",
    "lines": [
     964,
     982
    ],
    "symbol": "damage"
   },
   "Peace": {
    "source": "src/src/fight.c",
    "lines": [
     2148,
     2176
    ],
    "symbol": "stop_fighting"
   },
   "Enter": {
    "source": "src/src/comm.c",
    "lines": [
     3935,
     3952
    ],
    "symbol": "check_reconnect"
   },
   "Forget": {
    "source": "src/src/pdelete.c",
    "lines": [
     50,
     142
    ],
    "symbol": "do_sdelete"
   },
   "Edited": {
    "source": "src/src/build.c",
    "lines": [
     4572,
     4590
    ],
    "symbol": "build_editstr"
   },
   "Begins": {
    "source": "src/src/write.c",
    "lines": [
     22,
     57
    ],
    "symbol": "write_start"
   },
   "Reworded": {
    "source": "src/src/build.c",
    "lines": [
     4593,
     4606
    ],
    "symbol": "build_finishedstr"
   },
   "Struck": {
    "source": "src/src/update.c",
    "lines": [
     1229,
     1248
    ],
    "symbol": "char_update"
   },
   "Left": {
    "source": "src/src/handler.c",
    "lines": [
     0,
     0
    ],
    "symbol": "extract_char"
   },
   "Inherited": {
    "source": "src/src/lists.h",
    "lines": [
     122,
     135
    ],
    "symbol": "GET_FREE"
   },
   "Gone": {
    "source": "src/src/db.c",
    "lines": [
     0,
     0
    ],
    "symbol": "free_char"
   }
  },
  "Building": {
   "build_dig": {
    "source": "src/src/build.c",
    "lines": [
     3013,
     3131
    ],
    "symbol": "build_dig"
   },
   "NewExit": {
    "source": "src/src/build.c",
    "lines": [
     3106,
     3128
    ],
    "symbol": "build_dig"
   },
   "build_addmob": {
    "source": "src/src/build.c",
    "lines": [
     3162,
     3251
    ],
    "symbol": "build_addmob"
   },
   "build_addobject": {
    "source": "src/src/build.c",
    "lines": [
     3253,
     3331
    ],
    "symbol": "build_addobject"
   },
   "build_addreset": {
    "source": "src/src/build.c",
    "lines": [
     3357,
     3501
    ],
    "symbol": "build_addreset"
   },
   "PlainResets": {
    "source": "src/src/build.c",
    "lines": [
     3390,
     3470
    ],
    "symbol": "build_addreset"
   },
   "Equip": {
    "source": "src/src/build.c",
    "lines": [
     3472,
     3620
    ],
    "symbol": "build_addreset"
   },
   "After": {
    "source": "src/src/build.c",
    "lines": [
     3686,
     3701
    ],
    "symbol": "build_addreset"
   },
   "Behind": {
    "source": "src/src/build.c",
    "lines": [
     3686,
     3694
    ],
    "symbol": "build_addreset"
   },
   "AtEnd": {
    "source": "src/src/build.c",
    "lines": [
     3702,
     3712
    ],
    "symbol": "build_addreset"
   },
   "Unused": {
    "source": "src/src/build.c",
    "lines": [
     3675,
     3684
    ],
    "symbol": "build_addreset"
   },
   "Free": {
    "source": "src/src/build.c",
    "lines": [
     3675,
     3684
    ],
    "symbol": "build_addreset"
   },
   "build_delreset": {
    "source": "src/src/build.c",
    "lines": [
     3719,
     3812
    ],
    "symbol": "build_delreset"
   },
   "Unlink": {
    "source": "src/src/build.c",
    "lines": [
     3797,
     3808
    ],
    "symbol": "build_delreset"
   },
   "nuke_exit_resets": {
    "source": "src/src/build.c",
    "lines": [
     1736,
     1756
    ],
    "symbol": "nuke_exit_resets"
   },
   "DropExits": {
    "source": "src/src/build.c",
    "lines": [
     2176,
     2186
    ],
    "symbol": "build_setroom"
   },
   "DropExit": {
    "source": "src/src/build.c",
    "lines": [
     2176,
     2186
    ],
    "symbol": "build_setroom"
   },
   "Back": {
    "source": "src/src/build.c",
    "lines": [
     2232,
     2239
    ],
    "symbol": "build_setroom"
   },
   "DoorTo": {
    "source": "src/src/build.c",
    "lines": [
     2241,
     2308
    ],
    "symbol": "build_setroom"
   },
   "DoorClear": {
    "source": "src/src/build.c",
    "lines": [
     2157,
     2212
    ],
    "symbol": "build_setroom"
   },
   "DoorType": {
    "source": "src/src/build.c",
    "lines": [
     2343,
     2398
    ],
    "symbol": "build_setroom"
   },
   "build_setroom": {
    "source": "src/src/build.c",
    "lines": [
     1797,
     1946
    ],
    "symbol": "build_setroom"
   },
   "build_setmob": {
    "source": "src/src/build.c",
    "lines": [
     1240,
     1389
    ],
    "symbol": "build_setmob"
   },
   "build_setobject": {
    "source": "src/src/build.c",
    "lines": [
     2653,
     2802
    ],
    "symbol": "build_setobject"
   },
   "CloneThing": {
    "source": "src/src/build.c",
    "lines": [
     5442,
     5471
    ],
    "symbol": "build_clone"
   },
   "CloneRoom": {
    "source": "src/src/build.c",
    "lines": [
     5472,
     5526
    ],
    "symbol": "build_clone"
   },
   "CloneObject": {
    "source": "src/src/build.c",
    "lines": [
     5527,
     5589
    ],
    "symbol": "build_clone"
   },
   "CloneMob": {
    "source": "src/src/build.c",
    "lines": [
     5591,
     5661
    ],
    "symbol": "build_clone"
   },
   "Ask": {
    "source": "src/src/build.c",
    "lines": [
     3839,
     3862
    ],
    "symbol": "build_delroom"
   },
   "AskRoom": {
    "source": "src/src/build.c",
    "lines": [
     3839,
     3862
    ],
    "symbol": "build_delroom"
   },
   "AskObject": {
    "source": "src/src/build.c",
    "lines": [
     4074,
     4097
    ],
    "symbol": "build_delobject"
   },
   "AskMob": {
    "source": "src/src/build.c",
    "lines": [
     4229,
     4252
    ],
    "symbol": "build_delmob"
   },
   "WithoutExits": {
    "source": "src/src/build.c",
    "lines": [
     3903,
     3930
    ],
    "symbol": "build_delroom"
   },
   "Deleted": {
    "source": "src/src/build.c",
    "lines": [
     3932,
     4056
    ],
    "symbol": "build_delroom"
   },
   "DelRoom": {
    "source": "src/src/build.c",
    "lines": [
     3864,
     3903
    ],
    "symbol": "build_delroom"
   },
   "DelObject": {
    "source": "src/src/build.c",
    "lines": [
     4099,
     4211
    ],
    "symbol": "build_delobject"
   },
   "DelMob": {
    "source": "src/src/build.c",
    "lines": [
     4254,
     4386
    ],
    "symbol": "build_delmob"
   },
   "Named": {
    "source": "src/src/build.c",
    "lines": [
     4128,
     4166
    ],
    "symbol": "build_delobject"
   },
   "Owns": {
    "source": "src/src/build.c",
    "lines": [
     3963,
     3975
    ],
    "symbol": "build_delroom"
   },
   "RoomOf": {
    "source": "src/src/build.c",
    "lines": [
     3976,
     3994
    ],
    "symbol": "build_delroom"
   },
   "Rooms": {
    "source": "src/src/build.c",
    "lines": [
     3911,
     3913
    ],
    "symbol": "build_delroom"
   },
   "Vnums": {
    "source": "src/src/build.c",
    "lines": [
     4107,
     4117
    ],
    "symbol": "build_delobject"
   },
   "Without": {
    "source": "src/src/build.c",
    "lines": [
     3996,
     4000
    ],
    "symbol": "build_delroom"
   },
   "Exit": {
    "source": "src/src/build.c",
    "lines": [
     3107,
     3128
    ],
    "symbol": "build_dig"
   },
   "Command": {
    "source": "src/src/build.c",
    "lines": [
     3675,
     3684
    ],
    "symbol": "build_addreset"
   },
   "Kinds": {
    "source": "src/src/build.c",
    "lines": [
     4061,
     4061
    ],
    "symbol": "build_delobject"
   },
   "Reset": {
    "source": "src/src/build.c",
    "lines": [
     3675,
     3679
    ],
    "symbol": "build_addreset"
   },
   "Walk": {
    "source": "src/src/build.c",
    "lines": [
     360,
     364
    ],
    "symbol": "build_interpret"
   },
   "do_savearea": {
    "source": "src/src/areasave.c",
    "lines": [
     88,
     138
    ],
    "symbol": "do_savearea"
   },
   "build_save": {
    "source": "src/src/areasave.c",
    "lines": [
     141,
     204
    ],
    "symbol": "build_save"
   },
   "Started": {
    "source": "src/src/areasave.c",
    "lines": [
     153,
     178
    ],
    "symbol": "build_save"
   },
   "SaveStep": {
    "source": "src/src/areasave.c",
    "lines": [
     151,
     203
    ],
    "symbol": "build_save"
   },
   "RoomItem": {
    "source": "src/src/areasave.c",
    "lines": [
     437,
     541
    ],
    "symbol": "build_save_rooms"
   },
   "MobItem": {
    "source": "src/src/areasave.c",
    "lines": [
     261,
     322
    ],
    "symbol": "build_save_mobs"
   },
   "ObjectItem": {
    "source": "src/src/areasave.c",
    "lines": [
     349,
     432
    ],
    "symbol": "build_save_objects"
   },
   "Item": {
    "source": "src/src/areasave.c",
    "lines": [
     180,
     203
    ],
    "symbol": "build_save"
   },
   "Written": {
    "source": "src/src/areasave.c",
    "lines": [
     180,
     203
    ],
    "symbol": "build_save"
   },
   "OneWritten": {
    "source": "src/src/areasave.c",
    "lines": [
     575,
     605
    ],
    "symbol": "build_save_resets"
   },
   "Ended": {
    "source": "src/src/areasave.c",
    "lines": [
     607,
     649
    ],
    "symbol": "build_save_end"
   },
   "Flush": {
    "source": "src/src/areasave.c",
    "lines": [
     651,
     667
    ],
    "symbol": "build_save_flush"
   },
   "Flagged": {
    "source": "src/src/areasave.c",
    "lines": [
     669,
     674
    ],
    "symbol": "area_modified"
   },
   "Unflagged": {
    "source": "src/src/areasave.c",
    "lines": [
     669,
     674
    ],
    "symbol": "area_modified"
   },
   "Sections": {
    "source": "src/src/areasave.c",
    "lines": [
     27,
     42
    ],
    "symbol": "BUILD_SEC_AREA"
   },
   "Saving": {
    "source": "src/src/areasave.c",
    "lines": [
     45,
     65
    ],
    "symbol": "SaveQ"
   },
   "Saved": {
    "source": "src/src/areasave.c",
    "lines": [
     45,
     65
    ],
    "symbol": "SaveQ"
   },
   "NoSave": {
    "source": "src/src/areasave.c",
    "lines": [
     50,
     65
    ],
    "symbol": "saving_area"
   },
   "EmptyFile": {
    "source": "src/src/areasave.c",
    "lines": [
     159,
     160
    ],
    "symbol": "build_save"
   },
   "FileOf": {
    "source": "src/src/areasave.c",
    "lines": [
     180,
     203
    ],
    "symbol": "build_save"
   },
   "NotWriting": {
    "source": "src/src/areasave.c",
    "lines": [
     174,
     176
    ],
    "symbol": "build_save"
   },
   "fix_exits": {
    "source": "src/src/db.c",
    "lines": [
     1652,
     1697
    ],
    "symbol": "fix_exits"
   },
   "load_resets": {
    "source": "src/src/db.c",
    "lines": [
     1233,
     1334
    ],
    "symbol": "load_resets"
   },
   "Makes": {
    "source": "src/src/db.c",
    "lines": [
     1736,
     1808
    ],
    "symbol": "check_resets"
   },
   "Load": {
    "source": "src/src/db.c",
    "lines": [
     490,
     560
    ],
    "symbol": "boot_db"
   },
   "load_rooms": {
    "source": "src/src/db.c",
    "lines": [
     1362,
     1530
    ],
    "symbol": "load_rooms"
   },
   "load_mobiles": {
    "source": "src/src/db.c",
    "lines": [
     930,
     1065
    ],
    "symbol": "load_mobiles"
   },
   "load_objects": {
    "source": "src/src/db.c",
    "lines": [
     1070,
     1213
    ],
    "symbol": "load_objects"
   },
   "vnums": {
    "source": "src/src/db.c",
    "lines": [
     1370,
     1385
    ],
    "symbol": "load_rooms"
   },
   "TextIn": {
    "source": "src/src/db.c",
    "lines": [
     1396,
     1400
    ],
    "symbol": "load_rooms"
   },
   "Boot": {
    "source": "src/src/db.c",
    "lines": [
     530,
     560
    ],
    "symbol": "boot_db"
   },
   "Reboot": {
    "source": "src/src/act_wiz.c",
    "lines": [
     1555,
     1574
    ],
    "symbol": "do_reboot"
   },
   "Pulse": {
    "source": "src/src/update.c",
    "lines": [
     1728,
     1732
    ],
    "symbol": "update_handler"
   },
   "Crash": {
    "external": true,
    "symbol": "the process is killed and started again by the startup script"
   }
  }
 },
 "findings": [],
 "hazards": [
  {
   "kind": "protocol_sequence",
   "source": "src/src/ssm.c:265",
   "what": "ssm_buf_free->usage-- takes a reference from a block nobody freed: right only if ssm_buf_free is never a block in use, over any sequence of dups, frees, double frees (detected only while the block is still free) and defragmentations",
   "properties": [
    "UsageCountsRefs"
   ]
  },
  {
   "kind": "numeric_edge",
   "source": "src/src/ssm.c:138",
   "what": "sizes are unsigned shorts, a merge across chunks can exceed 65535, and a split must leave room for a header",
   "properties": [
    "NoOverlap"
   ]
  },
  {
   "kind": "stale_state",
   "source": "src/src/ssm.c:316",
   "what": "a string freed while the database loads must leave the boot-time table, or a later read of the same text gets a dead block",
   "properties": [
    "BootTableLive"
   ]
  },
  {
   "kind": "stale_state",
   "source": "src/src/ssm.c:121",
   "what": "defrag_heap rewrites the list that ssm_buf_free and the walk point into",
   "properties": [
    "NoOverlap",
    "ImplementsStore"
   ]
  },
  {
   "kind": "resource_bound",
   "source": "src/src/ssm.c:235",
   "what": "a full heap: str_dup falls back to malloc, and free_string must tell the two apart",
   "properties": [
    "ImplementsStore"
   ]
  },
  {
   "kind": "protocol_sequence",
   "source": "src/src/duel.c:762",
   "what": "whatever ends a duel (death, timers, idling, a lost link, a hot reboot) must put back what start_duel saved, for both players",
   "properties": [
    "SparLeavesNoTrace"
   ]
  },
  {
   "kind": "crash_recovery",
   "source": "src/src/save.c:118",
   "what": "a player file written during a duel would make the duel's wounds and race last after a crash; cancel_duel lifts the ban for its own save",
   "properties": [
    "FilesFromOutside"
   ]
  },
  {
   "kind": "stale_state",
   "source": "src/src/handler.c:742",
   "what": "a duel refers to characters by pointer, and every way to leave the room or the game has to be told",
   "properties": [
    "InTheirPlaces"
   ]
  },
  {
   "kind": "interleaving",
   "source": "src/src/duel.c:444",
   "what": "offers, acceptances, spectators and departures of several players in any order: find_duel returns the first duel it meets",
   "properties": [
    "OneRole"
   ]
  },
  {
   "kind": "liveness",
   "source": "src/src/duel.c:817",
   "what": "an offer nobody answers, a duel nobody wins, a duellist whose link is lost (its clock races with his reconnection, and does not run if it was lost before the duel began)",
   "properties": [
    "DuelsEnd"
   ]
  },
  {
   "kind": "interleaving",
   "source": "src/src/handler.c:1746",
   "what": "the body of a loop over the world extracts the character the loop would visit next, or one that an outer loop would; a variable that is moved on to the wrong one skips somebody or visits him twice",
   "properties": [
    "LoopsExact",
    "ImplementsTraversal"
   ]
  },
  {
   "kind": "ordering",
   "source": "src/src/fight.c:145",
   "what": "violence_update rotates the list it walks while fights create and extract characters",
   "properties": [
    "FightsOwed"
   ]
  },
  {
   "kind": "protocol_sequence",
   "source": "src/src/merc.h:432",
   "what": "the same place may be entered again while its loop runs: char_reference calls abort()",
   "properties": [],
   "note": "CharList models the abort as a step that stops the server; see Known deviations in the README"
  },
  {
   "kind": "stale_state",
   "source": "src/src/magic.c:1090",
   "what": "a variable that is registered for one list and walks another: call_lightning says CHAR_NEXTROOM and walks first_char, the autoquit loop (src/src/update.c:1258) walks next_player with one registered for next, mpforce all (src/src/mob_commands.c:677) registers none",
   "properties": [],
   "note": "CharList models loops that are registered for the list they walk"
  },
  {
   "kind": "stale_state",
   "source": "src/src/fight.c:492",
   "what": "a loop over the people of a room is not told when one of them walks out: char_from_room moves nothing on",
   "properties": [],
   "note": "loops over the people of a room are not modelled: Company has the pointers of those who fight and follow, CharList the registered loops"
  },
  {
   "kind": "interleaving",
   "source": "src/src/comm.c:2929",
   "what": "the player file is read when the name is given and comes to life when the password is right: in between the player may have played and quit, or another login have failed and saved its own copy",
   "properties": [
    "OneBody"
   ]
  },
  {
   "kind": "stale_state",
   "source": "src/src/comm.c:2929",
   "what": "the player file is read when the name is given and comes to life when the password is right: in between the player may have played and quit, or another login have failed and saved its own copy",
   "properties": [
    "EntersCurrent"
   ]
  },
  {
   "kind": "stale_state",
   "source": "src/src/comm.c:3921",
   "what": "three pointers say who plays whom (d->character, d->original, ch->desc), changed by a reconnection, a switch, a lost link and a quit",
   "properties": [
    "Attached"
   ]
  },
  {
   "kind": "stale_state",
   "source": "src/src/auction.c:120",
   "what": "the auctioneer writes the file of an absent player who may be at his password prompt: the copy that was loaded there wins; in the same way a deletion (src/src/pdelete.c:111) does not close logins that wait for the password, so one of them may bring the deleted character back",
   "properties": [],
   "note": "Login leaves it out with Careful = TRUE; see Known deviations in the README"
  },
  {
   "kind": "stale_state",
   "source": "src/src/comm.c:3057",
   "what": "a wrong password saves the copy that was loaded with the name, over what the player who is in the world has saved since",
   "properties": [],
   "note": "Login models it; the file goes back to an older version, see Known deviations in the README"
  },
  {
   "kind": "numeric_edge",
   "source": "src/src/comm.c:628",
   "what": "128 slots: when all are taken, the first one is given away however many failures it counts; and windows follow each other, so twice the limit fits into one window's length; entries expire one by one as a scan meets them, and a later scan must not find a second one for the same address",
   "properties": [
    "CountDeserved"
   ]
  },
  {
   "kind": "liveness",
   "source": "src/src/comm.c:669",
   "what": "asking whether an address is throttled must not prolong it, however often it is asked",
   "properties": [
    "RefusedForAWhile"
   ]
  },
  {
   "kind": "unreliable_delivery",
   "source": "src/src/dns.c:166",
   "what": "answers of a name server are late, repeated, out of order or lost, and are matched (482) by the number of the request alone, which is drawn blindly, so that two lookups may share it, or one gets the answers to the questions of one that is over",
   "properties": [
    "NamesVerified",
    "LookupsEnd"
   ]
  },
  {
   "kind": "interleaving",
   "source": "src/src/trade.c:103",
   "what": "both sides of a trade must confirm the same offer, and either may change it, leave or lose his link in between",
   "properties": [
    "Binding",
    "PromisesHold",
    "OnePlace"
   ]
  },
  {
   "kind": "resource_bound",
   "source": "src/src/auction.c:176",
   "what": "gold promised to several auctions by a bidder who then spends it, quits or deletes himself",
   "properties": [
    "PromisesHold",
    "NothingFromNowhere"
   ]
  },
  {
   "kind": "crash_recovery",
   "source": "src/src/auction.c:200",
   "what": "a sale changes two players, one or both of them not there, and the auction file: all three must be written before the next command",
   "properties": [
    "OnePlace"
   ]
  },
  {
   "kind": "liveness",
   "source": "src/src/auction.c:687",
   "what": "a late bid prolongs an auction, and so may the next one",
   "properties": [
    "AuctionsEnd"
   ]
  },
  {
   "kind": "stale_state",
   "source": "src/src/handler.c:1507",
   "what": "carry_number and carry_weight of whoever carries the outermost container, and the light of his room, are adjusted at each step of each object by different code and never counted anew",
   "properties": [
    "CountersExact"
   ]
  },
  {
   "kind": "protocol_sequence",
   "source": "src/src/handler.c:1716",
   "what": "a character is extracted, or a corpse decays, while his bags hold what others put there: everything must be moved or extracted with it, once",
   "properties": [
    "Placed"
   ]
  },
  {
   "kind": "stale_state",
   "source": "src/src/handler.c:1763",
   "what": "the quest's mob, target and object are global pointers, cleared only where characters and objects are extracted",
   "properties": [
    "NothingDangles"
   ]
  },
  {
   "kind": "ordering",
   "source": "src/src/quest.c:736",
   "what": "a quest ends inside a handler that still holds its object or its mob: a delivery, a death, a decay",
   "properties": [
    "NothingDangles",
    "NamesRestored"
   ]
  },
  {
   "kind": "liveness",
   "source": "src/src/quest.c:593",
   "what": "a quest nobody works on, or whose thief is dead, must not keep the next one from beginning",
   "properties": [
    "QuestEnds"
   ]
  },
  {
   "kind": "stale_state",
   "source": "src/src/fight.c:2494",
   "what": "ch->fighting, master, hunting, riding and rider are pointers nobody counts, and either fighter may die inside the other's attack",
   "properties": [
    "NobodyDangles"
   ]
  },
  {
   "kind": "protocol_sequence",
   "source": "src/src/act_comm.c:1861",
   "what": "num_followers is changed in add_follower, stop_follower and die_follower only, while mobs are charmed, ordered, attacked by their master and killed",
   "properties": [
    "FollowersCounted"
   ]
  },
  {
   "kind": "stale_state",
   "source": "src/src/fight.c:985",
   "what": "a blow makes bystanders, pets and hunters fight, some of whom are not where the blow fell; whoever rescues or assists somebody whose enemy has gone begins to fight at a distance (3653, 5089)",
   "properties": [
    "FightsBeginTogether"
   ]
  },
  {
   "kind": "stale_state",
   "source": "src/src/write.c:402",
   "what": "the editor keeps a pointer to the message or note it will fill, over many lines, while others delete it, and its writer fights, dies, quits or is thrown out, and his memory is used again",
   "properties": [
    "SessionsSound"
   ],
   "note": "covered with Careful; that an edited message may be deleted (board.c:504) and that a second session may be begun beside one that was left is in section 8 of the README"
  },
  {
   "kind": "crash_recovery",
   "source": "src/src/board.c:744",
   "what": "a message is in the board's list from its first line on, and the board's file is written by whoever finishes another one meanwhile, or not at all after an edit",
   "properties": [
    "FinishedSurvives",
    "NoneUnwritten"
   ]
  },
  {
   "kind": "protocol_sequence",
   "source": "src/src/build.c:3903",
   "what": "a room is deleted while exits of other rooms, resets of its people and of its doors, and the confirmations of other builders still name it",
   "properties": [
    "ExitsLead",
    "ResetsSound"
   ]
  },
  {
   "kind": "stale_state",
   "source": "src/src/build.c:3686",
   "what": "each reset hangs in the area's list and in its room's, and equipment belongs to whatever mobile precedes it: an insertion or deletion that does not keep both lists in step gives the equipment to another mobile at the next boot",
   "properties": [
    "ResetsSound"
   ]
  },
  {
   "kind": "crash_recovery",
   "source": "src/src/areasave.c:651",
   "what": "the area is written item by item over many pulses while builders go on, with more saves queued: a crash or a reboot may come when the flag is already cleared and the file not yet written",
   "properties": [
    "QuietMeansSaved",
    "EditsSaved"
   ]
  }
 ],
 "theorems": [
  {
   "module": "Memory_proofs",
   "theorem": "TypeCorrect",
   "about": "every reachable state is well typed, for every size of the space, of a chunk and of a header: a split or a merge never puts a block outside the space"
  },
  {
   "module": "Memory_proofs",
   "theorem": "BlocksDisjoint",
   "about": "no two blocks of the space overlap, whatever the 16-bit sizes wrap to",
   "property": "NoOverlap"
  },
  {
   "module": "Memory_proofs",
   "theorem": "HeldStringsLive",
   "about": "a block is in use exactly as often as it is held, so no held string is ever handed out again, if freed strings are not dup'ed",
   "property": "UsageCountsRefs"
  },
  {
   "module": "Memory_proofs",
   "theorem": "FreePtrSafe",
   "about": "ssm_buf_free never points at a block in use, so its decrement takes no client's reference"
  },
  {
   "module": "Memory_proofs",
   "theorem": "BootTableSound",
   "about": "the boot-time table offers only strings of the space that are live",
   "property": "BootTableLive"
  },
  {
   "module": "Memory_proofs",
   "theorem": "ManagerImplementsStore",
   "about": "every step of the heap is New, Share or Release of the store of counted strings, or invisible in it: an address is handed out only while nobody holds it, keeps its text, and goes back with the last release, if freed strings are not dup'ed",
   "property": "ImplementsStore"
  },
  {
   "module": "Duel_proofs",
   "theorem": "DuelTypeOK",
   "about": "every timer and every saved body stays in range"
  },
  {
   "module": "Duel_proofs",
   "theorem": "DuelOneRole",
   "about": "nobody is in two duels, in one and watching one, or watching two",
   "property": "OneRole"
  },
  {
   "module": "Duel_proofs",
   "theorem": "DuelArenas",
   "about": "no arena is given to two duels"
  },
  {
   "module": "Duel_proofs",
   "theorem": "DuelInTheirPlaces",
   "about": "duellists are in their arena and arenas hold nobody else, until a duel begins its players are where start_duel expects them, and no duel refers to a character who left the game, where immortals keep out",
   "property": "InTheirPlaces"
  },
  {
   "module": "Duel_proofs",
   "theorem": "DuelTimers",
   "about": "duel_update acts on every timer in the second in which it runs out"
  },
  {
   "module": "Duel_proofs",
   "theorem": "DuelFiles",
   "about": "no player file ever holds what a duel made of a player",
   "property": "FilesFromOutside"
  },
  {
   "module": "Duel_proofs",
   "theorem": "DuelLinkClocks",
   "about": "the clock of a lost link runs only while the link is lost"
  },
  {
   "module": "Duel_proofs",
   "theorem": "DuelLeavesNoTrace",
   "about": "however a duel ends, its players leave it as they entered it",
   "property": "SparLeavesNoTrace"
  },
  {
   "module": "Memory_proofs",
   "theorem": "CursorSafe",
   "about": "no registered loop is ever about to visit a freed character, for any number of characters and loops"
  },
  {
   "module": "Memory_proofs",
   "theorem": "VisitsExact",
   "about": "a registered loop skips nobody and visits nobody twice",
   "property": "LoopsExact"
  },
  {
   "module": "Memory_proofs",
   "theorem": "RoundExact",
   "about": "a round of violence_update still owes exactly those in front of its marker",
   "property": "FightsOwed"
  },
  {
   "module": "Memory_proofs",
   "theorem": "ListRefinesTraversal",
   "about": "the list with its registered loops implements Traversal",
   "property": "ImplementsTraversal"
  },
  {
   "module": "Memory_proofs",
   "theorem": "ListTyped",
   "about": "every reachable state is well typed"
  },
  {
   "module": "Sessions_proofs",
   "theorem": "LoginOneBody",
   "about": "nobody is in the world twice or has two sessions beyond the password, for any number of sockets, names and bodies",
   "property": "OneBody"
  },
  {
   "module": "Sessions_proofs",
   "theorem": "LoginAttached",
   "about": "descriptors and bodies never name freed memory and never disagree about who plays whom",
   "property": "Attached"
  },
  {
   "module": "Sessions_proofs",
   "theorem": "LoginEntersCurrent",
   "about": "whoever enters the world is the version his file holds at that moment, however many copies were loaded before, and bears what failed logins left in it, unless one failed with another copy after his was loaded",
   "property": "EntersCurrent"
  },
  {
   "module": "Market_proofs",
   "theorem": "MarketOnePlace",
   "about": "every item is in one place and the disk agrees with the memory between commands, for any number of players, items and auctions, if the machine does not stop within a command",
   "property": "OnePlace"
  },
  {
   "module": "Market_proofs",
   "theorem": "MarketBinding",
   "about": "once a side has accepted, no sequence of commands changes what either side of the trade offers",
   "property": "Binding"
  },
  {
   "module": "Market_proofs",
   "theorem": "MarketPromisesHold",
   "about": "bids, stakes and the price of what is offered are covered by what the player has, for any number of auctions and any amounts, if the machine does not stop within a command and promised points are not spent",
   "property": "PromisesHold"
  },
  {
   "module": "Market_proofs",
   "theorem": "MarketNothingFromNowhere",
   "about": "no step of a trade, an auction, the bank, the treasury or a restart leaves more gold or quest points in the world than there were",
   "property": "NothingFromNowhere"
  },
  {
   "module": "Market_proofs",
   "theorem": "MarketTradeMutual",
   "about": "a trade is between two who are both there and own what they offer, wherever the machine stops"
  },
  {
   "module": "Market_proofs",
   "theorem": "MarketPartiesExist",
   "about": "the owner and the bidder of an auction exist as long as it is on, wherever the machine stops"
  },
  {
   "module": "Objects_proofs",
   "theorem": "InvariantHolds",
   "about": "what is known of the world between two calls of handler.c, with no object in hand, is known after every command: the inductive invariant, for any objects, persons and rooms"
  },
  {
   "module": "Objects_proofs",
   "theorem": "ObjectsPlaced",
   "about": "an object that exists is in one place, at the end of a chain of things that exist, whatever the commands, however deep the bags",
   "property": "Placed"
  },
  {
   "module": "Objects_proofs",
   "theorem": "ObjectsCounted",
   "about": "carry_number and carry_weight are what a count through the bags would find, and a room's light is no less than its lamps",
   "property": "CountersExact"
  },
  {
   "module": "Objects_proofs",
   "theorem": "CoinsAreKept",
   "about": "no coin is made or lost by getting, dropping, giving or stealing, whatever heaps lie about",
   "property": "CoinsKept"
  },
  {
   "module": "People_proofs",
   "theorem": "QuestNothingDangles",
   "about": "quest_mob, quest_target and quest_object never outlive what they point to, for any number of mobs and players",
   "property": "NothingDangles"
  },
  {
   "module": "People_proofs",
   "theorem": "QuestNamesRestored",
   "about": "exactly the parties of a quest have the descriptions it gave them, so every end of a quest gives them back",
   "property": "NamesRestored"
  },
  {
   "module": "People_proofs",
   "theorem": "NobodyEverDangles",
   "about": "no pointer to a fight, a master, a prey, a mount or a rider outlives whom it points to, for any number of players, mobs and rooms, through every chain of blows, flights, deaths and followers",
   "property": "NobodyDangles"
  },
  {
   "module": "People_proofs",
   "theorem": "FollowersAlwaysCounted",
   "about": "num_followers is the number of mobs that follow, within the limit, and who is charmed follows a player, for any number of people",
   "property": "FollowersCounted"
  },
  {
   "module": "Sessions_proofs",
   "theorem": "GateNamesVerified",
   "about": "however late, repeated or mixed up the answers of a name server whose answers stay the same, nobody is shown under a name that is not his address's own, unless a lookup of that address shared its number with another lookup or an older question and something of it is left; and whoever is connected or came in above the first level is shown as the cache has his address",
   "property": "NamesVerified"
  },
  {
   "module": "Sessions_proofs",
   "theorem": "GateCountDeserved",
   "about": "the table charges an address only with its own recent failures, for tables of every size and any number of addresses",
   "property": "CountDeserved"
  },
  {
   "module": "Writing_proofs",
   "theorem": "WritingSessionsSound",
   "about": "with Careful: who writes has one session, who does not has none but one that was left, and each points into a live message or a note that was not sent, for any number of players and messages, through blows, deaths, leavings and memory that is used again",
   "property": "SessionsSound"
  },
  {
   "module": "Writing_proofs",
   "theorem": "WritingFinishedSurvives",
   "about": "with Careful: the files have every finished message, with its author and with its text but for edits since the board was last saved, and every note that was sent, whatever drafts were saved meanwhile",
   "property": "FinishedSurvives"
  },
  {
   "module": "Writing_proofs",
   "theorem": "WritingNoneUnwritten",
   "about": "with Careful: a message without a text has a session that may give it one, also after a crash in the middle of one",
   "property": "NoneUnwritten"
  },
  {
   "module": "Building_proofs",
   "theorem": "BuildingExitsLead",
   "about": "every exit leads to a room and every door has two sides and one room on each, for any number of rooms, builders and vnums and with any of them at work at once",
   "property": "ExitsLead"
  },
  {
   "module": "Building_proofs",
   "theorem": "BuildingResetsSound",
   "about": "the area's list and the rooms' lists of resets agree and equipment follows its own mobile, in memory and in what a boot makes of the file",
   "property": "ResetsSound"
  },
  {
   "module": "Building_proofs",
   "theorem": "BuildingQuietMeansSaved",
   "about": "an area that is not flagged and not being written is on disk as it is in memory, however building and the pulses of a save interleave",
   "property": "QuietMeansSaved"
  },
  {
   "module": "Building_proofs",
   "theorem": "BuildingDiskIsGood",
   "about": "whatever is on disk, at every moment of a save that is cut short, loads into an area that makes sense and loses nothing of the file"
  },
  {
   "module": "People_proofs",
   "theorem": "FightsBegin",
   "property": "FightsBeginTogether",
   "about": "whoever begins to fight in a step is at its end in the room of the one he fights, through blows, spells, flights, hunts, assistance, frenzies and mobs that turn on a master, but for the three exceptions the property names, for any number of people and rooms"
  }
 ]
}
