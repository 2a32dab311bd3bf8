CONSTANTS Thread = {t1, t2}
          Name = {ann, bob}
          Email = {mail1}
          Password = {p1, p2}
          NoEmail = no_email
          Token = {k1}
          NoToken = no_token
          Ttl = 1
          RefreshLife = 2
          LastSecond = 2
          MaxRequests = 4
SPECIFICATION Spec
INVARIANTS TypeOK DuplicatesOverlap LinksWork OneChangePerLink SessionsComeFromLogins
SYMMETRY Symmetry
CHECK_DEADLOCK FALSE
