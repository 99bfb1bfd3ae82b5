SPECIFICATION Spec
CONSTANTS
  Episode <- MCEpisode
  Channel = {"here", "elsewhere"}
  ChannelOf <- MCChannelOf
  Session = {"s1", "s2", "s3", "s4"}
  First = "s1"
  MaxDown = 1
  MaxDrops = 2
  Message = {"m1", "m2"}
  Kind <- MCKind
  Event = {"daily", "mine", "late"}
  Calendar <- MCCalendar
  Versions <- MCVersions
  Mentions <- MCMentions
  Keyword = {"sprint review"}
  Day = 6
  Morning = {2}
  Poll = 1
  Ahead = 1
  BriefAhead = 1
  Horizon = 2
  MaxMeetings = 2
  MaxBriefs = 3
  Wakes = 1
  MaxNow = 10
  MaxFaults = 1
  MaxChanges = 1
  Reply = {"r", "q"}
  Notifier = {background}
  Texts = {2}
  HistoryMax = 1
  BufferMax = 1
  MaxEvents = 2
  MaxToggles = 3
CONSTRAINT Scenarios
INVARIANTS HandedOverOnce EpisodesFormOneChain NotifiedOnce NoReminderMissed EventsAccountedFor
PROPERTY ConnectionRecovers
CHECK_DEADLOCK FALSE
