SPECIFICATION Spec
CONSTANTS
  ann = ann
  ben = ben
  cid = cid
  bot = bot
  People <- MCPeople
  Bots <- MCBots
  Shares = {0, 350, 700}
  MinPlayers = 3
  VoteTime = 1
  Wait = 1
  CallerWait = 2
INVARIANT VotersCannotVoteAgain
